---- MODULE Spec2Model ----
(***************************************************************************)
(* Cloudless record storage: RecordFileIO (storage header, live list,      *)
(* free list, record locks) and RecordCursor, as one thread drives them.   *)
(*                                                                         *)
(* The page cache below RecordFileIO is taken as a byte store: a read      *)
(* returns what the last write to the same bytes stored.  The file is kept *)
(* per slot: the 40-byte record header and the payload area behind it.     *)
(* 64-bit offsets are kept as integers, NOT_FOUND (all ones) as -1; a      *)
(* 32-bit checksum (b << 16) | a is kept as its two 16-bit halves.         *)
(***************************************************************************)
EXTENDS Integers, Sequences, FiniteSets, TLC

VARIABLES
    file,             \* slot offset -> [hdr, data]: the bytes behind cachedFile
    storageHeader,    \* RecordFileIO::storageHeader
    freeLookupDepth,  \* RecordFileIO::freeLookupDepth
    recordLocks,      \* RecordFileIO::recordLocks: offset -> -1 (exclusive) or n > 0 (shared holders)
    cursors,          \* the caller's RecordCursor objects (NoCursor = nullptr)
    status,           \* "run", or how the last call ended the run: "hang", "throw"
    last,             \* the last call and what it returned
    liveOrder,        \* history: offsets of the records created and not removed, oldest first
    calls,            \* history: number of calls made so far
    threads,          \* the threads calling into one store: where each is in its call, and its locals
    headerMutex,      \* RecordFileIO::headerMutex: its holders, <<thread, exclusive>>
    freeListMutex,    \* RecordFileIO::freeListMutex: its holders
    lockOwners,       \* the holders of each RecordLock::mutex in recordLocks
    stale,            \* history: the cursors whose record was removed or moved through another cursor
    cache,            \* a CachedFileIO object: the file's bytes, the page pool, cacheList, cacheMap
    workers,          \* the threads calling into the CachedFileIO: where each is in its call, and its locals
    probe,            \* one record's bytes in the file on disk, a bit of them flipped, and what the engine then read
    mode              \* the cached file of the store: whether its handler is open, and its readOnly flag

vars == <<file, storageHeader, freeLookupDepth, recordLocks, cursors, status, last, liveOrder, calls, threads, headerMutex, freeListMutex, lockOwners, stale, cache, workers, probe, mode>>

----------------------------------------------------------------------------
(* Bounds of the model *)

MaxSlots == 3        \* slots ever allocated in the file
MaxLen == 2          \* longest payload a caller passes
MaxCalls == 8        \* calls the thread makes

Cursors == {"c1"}

----------------------------------------------------------------------------
(* Program constants *)

NOT_FOUND == -1
STORAGE_HEADER_SIZE == 64
RECORD_HEADER_SIZE == 40
RECORD_HEADER_PAYLOAD_SIZE == 36
RECORD_DELETED_FLAG == {63}     \* bitFlags is kept as the set of its one-bits
FREE_RECORD_LOOKUP_DEPTH == 64
FREE_RECORD_LOOKUP_RATIO == 10
MOD_ADLER == 65521

Max(x, y) == IF x >= y THEN x ELSE y

----------------------------------------------------------------------------
(* Adler-32 *)

RECURSIVE checksumLoop(_, _, _, _, _)
checksumLoop(data, length, index, a, b) ==
    IF index > length THEN [hi |-> b, lo |-> a]
    ELSE LET a2 == (a + data[index]) % MOD_ADLER
         IN  checksumLoop(data, length, index + 1, a2, (b + a2) % MOD_ADLER)

\* checksum(data, length): (b << 16) | a over the first length bytes
checksum(data, length) == checksumLoop(data, length, 1, 1, 0)

ZeroChecksum == [hi |-> 0, lo |-> 0]

\* little-endian bytes of the header fields
U16lo(v) == v % 256
U16hi(v) == (v \div 256) % 256
U64Bytes(v) ==
    IF v = NOT_FOUND THEN <<255, 255, 255, 255, 255, 255, 255, 255>>
    ELSE <<U16lo(v), U16hi(v), 0, 0, 0, 0, 0, 0>>
U32Bytes(v) == <<U16lo(v), U16hi(v), 0, 0>>
ChecksumBytes(c) == <<U16lo(c.lo), U16hi(c.lo), U16lo(c.hi), U16hi(c.hi)>>
FlagByte(flags, k) ==
    (IF 8 * k \in flags THEN 1 ELSE 0) + (IF 8 * k + 1 \in flags THEN 2 ELSE 0)
  + (IF 8 * k + 2 \in flags THEN 4 ELSE 0) + (IF 8 * k + 3 \in flags THEN 8 ELSE 0)
  + (IF 8 * k + 4 \in flags THEN 16 ELSE 0) + (IF 8 * k + 5 \in flags THEN 32 ELSE 0)
  + (IF 8 * k + 6 \in flags THEN 64 ELSE 0) + (IF 8 * k + 7 \in flags THEN 128 ELSE 0)
FlagBytes(flags) == [k \in 1..8 |-> FlagByte(flags, k - 1)]

\* the first RECORD_HEADER_PAYLOAD_SIZE bytes of a RecordHeader
RecordHeaderBytes(h) ==
    U64Bytes(h.next) \o U64Bytes(h.previous) \o FlagBytes(h.bitFlags)
    \o U32Bytes(h.recordCapacity) \o U32Bytes(h.dataLength) \o ChecksumBytes(h.dataChecksum)

\* The same checksum without the loop: a is 1 plus the sum of the bytes, b is
\* the sum of a after each byte, so a byte at position p of n counts n + 1 - p
\* times in b.  Only the bytes that can be non-zero are added up.
ByteWeight(p) == RECORD_HEADER_PAYLOAD_SIZE + 1 - p
Word16At(v, p) ==
    [sum |-> U16lo(v) + U16hi(v),
     wsum |-> U16lo(v) * ByteWeight(p) + U16hi(v) * ByteWeight(p + 1)]
Offset64At(v, p) ==
    IF v = NOT_FOUND
    THEN [sum |-> 8 * 255, wsum |-> 255 * (8 * ByteWeight(p) - 28)]
    ELSE Word16At(v, p)
FlagsAt(flags, p) ==
    IF 63 \in flags THEN [sum |-> 128, wsum |-> 128 * ByteWeight(p + 7)]
    ELSE [sum |-> 0, wsum |-> 0]

\* checksum((uint8_t*)&header, RECORD_HEADER_PAYLOAD_SIZE)
headChecksumOf(h) ==
    LET f1 == Offset64At(h.next, 1)
        f2 == Offset64At(h.previous, 9)
        f3 == FlagsAt(h.bitFlags, 17)
        f4 == Word16At(h.recordCapacity, 25)
        f5 == Word16At(h.dataLength, 29)
        f6 == Word16At(h.dataChecksum.lo, 33)
        f7 == Word16At(h.dataChecksum.hi, 35)
    IN  [hi |-> (RECORD_HEADER_PAYLOAD_SIZE + f1.wsum + f2.wsum + f3.wsum + f4.wsum
                 + f5.wsum + f6.wsum + f7.wsum) % MOD_ADLER,
         lo |-> (1 + f1.sum + f2.sum + f3.sum + f4.sum + f5.sum + f6.sum + f7.sum) % MOD_ADLER]

\* the byte loop and the sum agree on a header
HeadChecksumIsAdler(h) ==
    headChecksumOf(h) = checksum(RecordHeaderBytes(h), RECORD_HEADER_PAYLOAD_SIZE)

\* a store opened for reading and writing, and one opened read-only
ReadWrite == [open |-> TRUE, readOnly |-> FALSE]
ReadOnly == [open |-> TRUE, readOnly |-> TRUE]

\* a RecordHeader on the stack that nothing has been stored in yet
UninitHeader ==
    [next |-> NOT_FOUND, previous |-> NOT_FOUND, bitFlags |-> {}, recordCapacity |-> 0,
     dataLength |-> 0, dataChecksum |-> ZeroChecksum, headChecksum |-> ZeroChecksum]

----------------------------------------------------------------------------
(* The engine state an operation works on, and the outcome of a step *)

Engine ==
    [file |-> file, sh |-> storageHeader, depth |-> freeLookupDepth,
     locks |-> recordLocks, status |-> status, mode |-> mode]

Running(st) == st.status = "run"

LockWord(locks, offset) == IF offset \in DOMAIN locks THEN locks[offset] ELSE 0

SetLockWord(locks, offset, w) ==
    IF w = 0 THEN [o \in DOMAIN locks \ {offset} |-> locks[o]]
    ELSE [o \in DOMAIN locks \cup {offset} |-> IF o = offset THEN w ELSE locks[o]]

\* lockRecord: the entry is created on first use; locking a shared_mutex the
\* calling thread already owns is undefined ("ub": the call hangs or throws)
lockRecord(st, offset, exclusive) ==
    IF ~Running(st) THEN st
    ELSE LET w == LockWord(st.locks, offset) IN
         IF (exclusive /\ w # 0) \/ (~exclusive /\ w < 0)
         THEN [st EXCEPT !.status = "ub"]
         ELSE [st EXCEPT !.locks = SetLockWord(@, offset, IF exclusive THEN -1 ELSE w + 1)]

\* unlockRecord: no entry, nothing done; the entry is erased with its last holder
unlockRecord(st, offset, exclusive) ==
    IF ~Running(st) THEN st
    ELSE LET w == LockWord(st.locks, offset) IN
         IF w = 0 THEN st
         ELSE IF (exclusive /\ w # -1) \/ (~exclusive /\ w < 0)
         THEN [st EXCEPT !.status = "ub"]
         ELSE [st EXCEPT !.locks = SetLockWord(@, offset, IF exclusive THEN 0 ELSE w - 1)]

----------------------------------------------------------------------------
(* Record header and payload I/O through the cache *)

\* CachedFileIO::isOpen: the file handler is open from open() to close()
isOpen(st) == st.mode.open

\* a cached file that takes every open() for a writable one
neverReadOnly(st) == FALSE

\* CachedFileIO::isReadOnly: the flag open() stored
isReadOnly(st) == st.mode.readOnly

\* cachedFile.write returns 0 and stores nothing unless the file is open and
\* not read-only
canWrite(st) == isOpen(st) /\ ~isReadOnly(st)

\* cachedFile.write(offset, &header, RECORD_HEADER_SIZE); at NOT_FOUND the
\* page range is empty and nothing is written
cachedWriteHeader(st, offset, header) ==
    IF ~Running(st) \/ ~canWrite(st) \/ offset = NOT_FOUND THEN st
    ELSE IF offset \in DOMAIN st.file
    THEN [st EXCEPT !.file[offset].hdr = header]
    ELSE [st EXCEPT !.file = (offset :> [hdr |-> header, data |-> <<>>]) @@ @]

\* cachedFile.write(offset + RECORD_HEADER_SIZE, data, length): the first
\* length bytes of the payload area are replaced, the rest stays
cachedWriteData(st, offset, data, length) ==
    IF ~Running(st) \/ ~canWrite(st) \/ offset = NOT_FOUND \/ length = 0 \/ offset \notin DOMAIN st.file THEN st
    ELSE [st EXCEPT !.file[offset].data =
              SubSeq(data, 1, length) \o SubSeq(@, length + 1, Len(@))]

\* readRecordHeader: [pos, header]; header is the caller's buffer afterwards
readRecordHeader(st, offset, buffer) ==
    IF isOpen(st) /\ offset \in DOMAIN st.file
    THEN LET h == st.file[offset].hdr IN
         [pos |-> IF headChecksumOf(h) = h.headChecksum THEN offset ELSE NOT_FOUND,
          header |-> h]
    ELSE [pos |-> NOT_FOUND, header |-> buffer]

\* the header as writeRecordHeader leaves it in the caller's struct
withHeadChecksum(header) == [header EXCEPT !.headChecksum = headChecksumOf(header)]

\* writeRecordHeader
writeRecordHeader(st, offset, header) ==
    cachedWriteHeader(st, offset, withHeadChecksum(header))

\* RecordHeader h; readRecordHeader(offset, h): h as the caller goes on with it
siblingHeader(st, offset) == readRecordHeader(st, offset, UninitHeader).header

\* a record header left as it is
keepHeader(st, offset, value) == st

\* readRecordHeader(offset, h); h.next = value; writeRecordHeader(offset, h)
setNext(st, offset, value) ==
    writeRecordHeader(st, offset, [siblingHeader(st, offset) EXCEPT !.next = value])

\* readRecordHeader(offset, h); h.previous = value; writeRecordHeader(offset, h)
setPrevious(st, offset, value) ==
    writeRecordHeader(st, offset, [siblingHeader(st, offset) EXCEPT !.previous = value])

\* both siblings are read, then left.next = right and right.previous = left
\* are written
connectSiblings(st, leftSiblingOffset, rightSiblingOffset) ==
    writeRecordHeader(
        writeRecordHeader(st, leftSiblingOffset,
            [siblingHeader(st, leftSiblingOffset) EXCEPT !.next = rightSiblingOffset]),
        rightSiblingOffset,
        [siblingHeader(st, rightSiblingOffset) EXCEPT !.previous = leftSiblingOffset])

\* writeStorageHeader: the header goes to file offset 0 and the lookup depth
\* is adjusted to the free list size
writeStorageHeader(st) ==
    IF ~Running(st) \/ ~canWrite(st) THEN st
    ELSE [st EXCEPT !.depth =
              Max(FREE_RECORD_LOOKUP_DEPTH, st.sh.totalFreeRecords \div FREE_RECORD_LOOKUP_RATIO)]

\* assignments to storageHeader fields
setStorageHeader(st, sh) == IF ~Running(st) THEN st ELSE [st EXCEPT !.sh = sh]

\* the header read under a shared record lock, as addRecordToFreeList,
\* getRecord, removeRecord and the cursor do it: [st, pos, header]
lockedReadHeader(st, offset, buffer) ==
    LET read(s) ==
            [st |-> unlockRecord(s, offset, FALSE),
             pos |-> IF Running(unlockRecord(s, offset, FALSE))
                     THEN readRecordHeader(s, offset, buffer).pos ELSE NOT_FOUND,
             header |-> IF Running(s) THEN readRecordHeader(s, offset, buffer).header
                        ELSE buffer]
    IN  read(lockRecord(st, offset, FALSE))

----------------------------------------------------------------------------
(* Free record list *)

\* removeRecordFromFreeList: unlink freeRecord from its free-list siblings
removeRecordFromFreeList(st, freeRecord) ==
    IF ~Running(st) THEN st
    ELSE IF ~(RECORD_DELETED_FLAG \subseteq freeRecord.bitFlags)
    THEN [st EXCEPT !.status = "throw"]
    ELSE
    LET leftSiblingOffset == freeRecord.previous
        rightSiblingOffset == freeRecord.next
        leftSiblingExists == leftSiblingOffset # NOT_FOUND
        rightSiblingExists == rightSiblingOffset # NOT_FOUND
        lockBoth(s) == lockRecord(lockRecord(s, leftSiblingOffset, TRUE), rightSiblingOffset, TRUE)
        unlockBoth(s) ==
            unlockRecord(unlockRecord(s, leftSiblingOffset, TRUE), rightSiblingOffset, TRUE)
        middle(s) ==
            writeStorageHeader(setStorageHeader(s, [s.sh EXCEPT !.totalFreeRecords = @ - 1]))
        lastOne(s) ==
            writeStorageHeader(setStorageHeader(s,
                [s.sh EXCEPT !.lastFreeRecord = leftSiblingOffset, !.totalFreeRecords = @ - 1]))
        firstOne(s) ==
            writeStorageHeader(setStorageHeader(s,
                [s.sh EXCEPT !.firstFreeRecord = rightSiblingOffset, !.totalFreeRecords = @ - 1]))
        onlyOne(s) ==
            writeStorageHeader(setStorageHeader(s,
                [s.sh EXCEPT !.firstFreeRecord = NOT_FOUND, !.lastFreeRecord = NOT_FOUND,
                             !.totalFreeRecords = @ - 1]))
    IN
    IF leftSiblingExists /\ rightSiblingExists THEN
        middle(unlockBoth(connectSiblings(lockBoth(st), leftSiblingOffset, rightSiblingOffset)))
    ELSE IF leftSiblingExists THEN
        lastOne(unlockRecord(setNext(lockRecord(st, leftSiblingOffset, TRUE),
                                     leftSiblingOffset, NOT_FOUND),
                             leftSiblingOffset, TRUE))
    ELSE IF rightSiblingExists THEN
        firstOne(unlockRecord(setPrevious(lockRecord(st, rightSiblingOffset, TRUE),
                                          rightSiblingOffset, NOT_FOUND),
                              rightSiblingOffset, TRUE))
    ELSE onlyOne(st)

\* getFromFreeList, from the suitable free record on: take freeRecord (at
\* freeRecordOffset, locked) off the free list and write the new record into it
recycleFreeRecord(st, freeRecord, freeRecordOffset, result, data, length, createNewRecord) ==
    LET filled == [result EXCEPT !.recordCapacity = freeRecord.recordCapacity,
                                 !.dataLength = length,
                                 !.dataChecksum = checksum(data, length),
                                 !.bitFlags = freeRecord.bitFlags \ RECORD_DELETED_FLAG]
        \* previousRecordPos = storageHeader.lastRecord, once the record is off the free list
        newHeader(s) ==
            withHeadChecksum(IF createNewRecord
                             THEN [filled EXCEPT !.next = NOT_FOUND, !.previous = s.sh.lastRecord]
                             ELSE filled)
        connect(s) ==
            IF createNewRecord
            THEN unlockRecord(setNext(lockRecord(s, s.sh.lastRecord, TRUE),
                                      s.sh.lastRecord, freeRecordOffset),
                              s.sh.lastRecord, TRUE)
            ELSE s
        store(s) ==
            unlockRecord(cachedWriteData(cachedWriteHeader(s, freeRecordOffset, newHeader(s)),
                                         freeRecordOffset, data, length),
                         freeRecordOffset, TRUE)
        count(s) ==
            IF createNewRecord
            THEN writeStorageHeader(setStorageHeader(s,
                     [s.sh EXCEPT !.lastRecord = freeRecordOffset, !.totalRecords = @ + 1]))
            ELSE s
        recycled(s) ==
            [st |-> count(store(connect(s))), offset |-> freeRecordOffset, header |-> newHeader(s)]
    IN  recycled(removeRecordFromFreeList(st, freeRecord))

\* getFromFreeList, the lookup loop over free records that do not fit: the
\* record is locked, its header read into freeRecord, the record unlocked,
\* and the loop goes on at freeRecord.next. [freeRecord, offset, counter]
\* where the loop ends or meets anything else.
RECURSIVE passUnfit(_, _, _, _, _, _)
passUnfit(st, freeRecord, freeRecordOffset, iterationCounter, maximumIterations, capacity) ==
    IF \/ freeRecord.next = NOT_FOUND \/ iterationCounter >= maximumIterations
       \/ freeRecordOffset \notin DOMAIN st.file \/ LockWord(st.locks, freeRecordOffset) # 0
       \/ (st.file[freeRecordOffset].hdr.recordCapacity >= capacity /\ RECORD_DELETED_FLAG \subseteq st.file[freeRecordOffset].hdr.bitFlags)
    THEN [freeRecord |-> freeRecord, offset |-> freeRecordOffset, counter |-> iterationCounter]
    ELSE passUnfit(st, st.file[freeRecordOffset].hdr, st.file[freeRecordOffset].hdr.next, iterationCounter + 1, maximumIterations, capacity)

\* getFromFreeList, the lookup loop
RECURSIVE freeListLookup(_, _, _, _, _, _, _, _, _, _)
lookupAt(st, at, maximumIterations, capacity, result, data, length, createNewRecord) ==
    IF ~Running(st) \/ at.freeRecord.next = NOT_FOUND \/ at.counter >= maximumIterations
    THEN [st |-> st, offset |-> NOT_FOUND, header |-> result]
    ELSE
    LET examine(s, fr) ==
            IF ~Running(s) THEN [st |-> s, offset |-> NOT_FOUND, header |-> result]
            ELSE IF fr.recordCapacity >= capacity /\ RECORD_DELETED_FLAG \subseteq fr.bitFlags
            THEN recycleFreeRecord(s, fr, at.offset, result, data, length, createNewRecord)
            \* the read failed and left freeRecord as it was, pointing at this
            \* offset: every further iteration is the same, up to maximumIterations
            ELSE IF fr = at.freeRecord /\ fr.next = at.offset
                    /\ unlockRecord(s, at.offset, TRUE) = st
            THEN [st |-> st, offset |-> NOT_FOUND, header |-> result]
            ELSE freeListLookup(unlockRecord(s, at.offset, TRUE), fr, fr.next,
                                at.counter + 1, maximumIterations,
                                capacity, result, data, length, createNewRecord)
        locked(s) == examine(s, readRecordHeader(s, at.offset, at.freeRecord).header)
    IN  locked(lockRecord(st, at.offset, TRUE))

freeListLookup(st, freeRecord, freeRecordOffset, iterationCounter, maximumIterations, capacity, result, data, length, createNewRecord) ==
    lookupAt(st,
             IF Running(st) /\ isOpen(st)
             THEN passUnfit(st, freeRecord, freeRecordOffset, iterationCounter, maximumIterations, capacity)
             ELSE [freeRecord |-> freeRecord, offset |-> freeRecordOffset, counter |-> iterationCounter],
             maximumIterations, capacity, result, data, length, createNewRecord)

\* a lookup that goes through the whole free list
getFromWholeFreeList(st, capacity, result, data, length, createNewRecord) ==
    IF st.sh.totalFreeRecords = 0
    THEN [st |-> st, offset |-> NOT_FOUND, header |-> result]
    ELSE freeListLookup(st, [UninitHeader EXCEPT !.next = st.sh.firstFreeRecord],
                        st.sh.firstFreeRecord, 0, st.sh.totalFreeRecords,
                        capacity, result, data, length, createNewRecord)

\* getFromFreeList: [st, offset, header]
getFromFreeList(st, capacity, result, data, length, createNewRecord) ==
    IF st.sh.totalFreeRecords = 0
    THEN [st |-> st, offset |-> NOT_FOUND, header |-> result]
    ELSE freeListLookup(st, [UninitHeader EXCEPT !.next = st.sh.firstFreeRecord],
                        st.sh.firstFreeRecord, 0, st.depth,
                        capacity, result, data, length, createNewRecord)

\* addRecordToFreeList: [st, ok]
addRecordToFreeList(st, offset) ==
    LET \* storageHeader: the free list ends in offset now
        extend(s) ==
            writeStorageHeader(setStorageHeader(s,
                [s.sh EXCEPT !.firstFreeRecord = IF @ = NOT_FOUND THEN offset ELSE @,
                             !.lastFreeRecord = offset,
                             !.totalFreeRecords = @ + 1]))
        connect(s, previousFreeRecordOffset) ==
            IF previousFreeRecordOffset # NOT_FOUND
            THEN unlockRecord(setNext(lockRecord(s, previousFreeRecordOffset, TRUE),
                                      previousFreeRecordOffset, offset),
                              previousFreeRecordOffset, TRUE)
            ELSE s
        mark(s, newFreeRecord, previousFreeRecordOffset) ==
            unlockRecord(
                writeRecordHeader(lockRecord(s, offset, TRUE), offset,
                    [newFreeRecord EXCEPT !.next = NOT_FOUND,
                                          !.previous = previousFreeRecordOffset,
                                          !.dataLength = 0,
                                          !.dataChecksum = ZeroChecksum,
                                          !.bitFlags = @ \cup RECORD_DELETED_FLAG]),
                offset, TRUE)
        added(s) == [st |-> s, ok |-> Running(s)]
        freed(rd) ==
            IF ~Running(rd.st) \/ rd.pos = NOT_FOUND
               \/ RECORD_DELETED_FLAG \subseteq rd.header.bitFlags
            THEN [st |-> rd.st, ok |-> FALSE]
            ELSE added(mark(connect(extend(rd.st), rd.st.sh.lastFreeRecord),
                            rd.header, rd.st.sh.lastFreeRecord))
    IN  freed(lockedReadHeader(st, offset, UninitHeader))

----------------------------------------------------------------------------
(* Record allocation *)

\* createFirstRecord: [st, offset, header]
createFirstRecord(st, capacity, result, data, length) ==
    LET offset == STORAGE_HEADER_SIZE
        first == withHeadChecksum(
                     [result EXCEPT !.next = NOT_FOUND, !.previous = NOT_FOUND,
                                    !.dataLength = length, !.recordCapacity = capacity,
                                    !.bitFlags = {}, !.dataChecksum = checksum(data, length)])
        header(s) ==
            setStorageHeader(s, [s.sh EXCEPT !.firstRecord = offset,
                                             !.lastRecord = offset,
                                             !.endOfData = offset + RECORD_HEADER_SIZE + capacity,
                                             !.totalRecords = @ + 1])
        store(s) ==
            unlockRecord(cachedWriteData(cachedWriteHeader(lockRecord(s, offset, TRUE),
                                                           offset, first),
                                         offset, data, length),
                         offset, TRUE)
    IN  [st |-> writeStorageHeader(store(header(st))), offset |-> offset, header |-> first]

\* appendNewRecord: [st, offset, header]
appendNewRecord(st, capacity, result, data, length, updateHeader) ==
    IF capacity = 0 THEN [st |-> st, offset |-> NOT_FOUND, header |-> result]
    ELSE
    LET lastRecordOffset == st.sh.lastRecord
        freeRecordOffset == st.sh.endOfData
        filled == [result EXCEPT !.next = NOT_FOUND, !.recordCapacity = capacity,
                                 !.bitFlags = {}, !.dataLength = length,
                                 !.dataChecksum = checksum(data, length)]
        appended == IF updateHeader
                    THEN withHeadChecksum([filled EXCEPT !.previous = lastRecordOffset])
                    ELSE filled
        header(s) ==
            setStorageHeader(s,
                [s.sh EXCEPT !.endOfData = freeRecordOffset + RECORD_HEADER_SIZE + capacity,
                             !.lastRecord = IF updateHeader THEN freeRecordOffset ELSE @,
                             !.totalRecords = IF updateHeader THEN @ + 1 ELSE @])
        connect(s) ==
            IF updateHeader
            THEN unlockRecord(setNext(lockRecord(s, lastRecordOffset, TRUE),
                                      lastRecordOffset, freeRecordOffset),
                              lastRecordOffset, TRUE)
            ELSE s
        store(s) ==
            unlockRecord(cachedWriteData(cachedWriteHeader(lockRecord(s, freeRecordOffset, TRUE),
                                                           freeRecordOffset, appended),
                                         freeRecordOffset, data, length),
                         freeRecordOffset, TRUE)
    IN  [st |-> writeStorageHeader(store(connect(header(st)))),
         offset |-> freeRecordOffset, header |-> appended]

\* allocateRecord: [st, offset, header]
allocateRecord(st, capacity, result, data, length, updateHeader) ==
    LET noFreeRecords == st.sh.firstFreeRecord = NOT_FOUND /\ st.sh.lastRecord = NOT_FOUND
        orAppend(g) ==
            IF g.offset # NOT_FOUND \/ ~Running(g.st) THEN g
            ELSE appendNewRecord(g.st, capacity, g.header, data, length, updateHeader)
    IN  IF noFreeRecords
        THEN createFirstRecord(st, capacity, result, data, length)
        ELSE orAppend(getFromFreeList(st, capacity, result, data, length, updateHeader))

----------------------------------------------------------------------------
(* Record data read and write *)

\* readRecordData: [st, pos, data]
readRecordData(st, offset) ==
    IF offset = NOT_FOUND THEN [st |-> st, pos |-> NOT_FOUND, data |-> <<>>]
    ELSE
    LET checked(s, recordHeader, data) ==
            IF checksum(data, recordHeader.dataLength) # recordHeader.dataChecksum
            THEN [st |-> s, pos |-> NOT_FOUND, data |-> data]
            ELSE [st |-> s, pos |-> offset, data |-> data]
        read(s, rd) ==
            IF ~Running(unlockRecord(s, offset, FALSE)) \/ rd.pos = NOT_FOUND
            THEN [st |-> unlockRecord(s, offset, FALSE), pos |-> NOT_FOUND, data |-> <<>>]
            ELSE checked(unlockRecord(s, offset, FALSE), rd.header,
                         SubSeq(s.file[offset].data, 1, rd.header.dataLength))
        locked(s) == read(s, readRecordHeader(s, offset, UninitHeader))
    IN  locked(lockRecord(st, offset, FALSE))

\* writeRecordData, the record does not fit: move it to a new place
relocateRecord(st, offset, recordHeader, data, length) ==
    LET leftSiblingOffset == recordHeader.previous
        rightSiblingOffset == recordHeader.next
        left(s, newOffset) ==
            IF leftSiblingOffset # NOT_FOUND
            THEN unlockRecord(setNext(lockRecord(s, leftSiblingOffset, TRUE),
                                      leftSiblingOffset, newOffset),
                              leftSiblingOffset, TRUE)
            ELSE s
        right(s, newOffset) ==
            IF rightSiblingOffset # NOT_FOUND
            THEN unlockRecord(setPrevious(lockRecord(s, rightSiblingOffset, TRUE),
                                          rightSiblingOffset, newOffset),
                              rightSiblingOffset, TRUE)
            ELSE s
        place(s, newOffset, newRecordHeader) ==
            unlockRecord(writeRecordHeader(s, newOffset,
                             [newRecordHeader EXCEPT !.previous = leftSiblingOffset,
                                                     !.next = rightSiblingOffset]),
                         newOffset, TRUE)
        moved(s, newOffset) == [st |-> s, pos |-> IF Running(s) THEN newOffset ELSE NOT_FOUND]
        freed(f, newOffset, newRecordHeader) ==
            IF ~f.ok THEN [st |-> f.st, pos |-> NOT_FOUND]
            ELSE moved(place(right(left(f.st, newOffset), newOffset), newOffset, newRecordHeader),
                       newOffset)
        allocated(a) ==
            IF ~Running(a.st) \/ a.offset = NOT_FOUND THEN [st |-> a.st, pos |-> NOT_FOUND]
            ELSE freed(addRecordToFreeList(
                           unlockRecord(lockRecord(a.st, a.offset, TRUE), offset, TRUE), offset),
                       a.offset, a.header)
    IN  allocated(allocateRecord(st, length, recordHeader, data, length, FALSE))

\* writeRecordData: [st, pos]
writeRecordData(st, offset, data, length) ==
    IF isReadOnly(st) \/ offset = NOT_FOUND \/ length = 0 THEN [st |-> st, pos |-> NOT_FOUND]
    ELSE
    LET inPlace(s, recordHeader) ==
            unlockRecord(
                cachedWriteData(
                    cachedWriteHeader(s, offset,
                        withHeadChecksum([recordHeader EXCEPT
                            !.dataLength = length, !.dataChecksum = checksum(data, length)])),
                    offset, data, length),
                offset, TRUE)
        write(s, rd) ==
            IF ~Running(s) THEN [st |-> s, pos |-> NOT_FOUND]
            ELSE IF rd.pos = NOT_FOUND \/ RECORD_DELETED_FLAG \subseteq rd.header.bitFlags
            THEN [st |-> unlockRecord(s, offset, TRUE), pos |-> NOT_FOUND]
            ELSE IF length <= rd.header.recordCapacity
            THEN [st |-> inPlace(s, rd.header), pos |-> offset]
            ELSE relocateRecord(s, offset, rd.header, data, length)
        locked(s) == write(s, readRecordHeader(s, offset, UninitHeader))
    IN  locked(lockRecord(st, offset, TRUE))

----------------------------------------------------------------------------
(* RecordFileIO public operations; a cursor is [pos, hdr], nullptr is NoCursor *)

NoCursor == [pos |-> NOT_FOUND, hdr |-> UninitHeader, null |-> TRUE]
Cursor(header, position) == [pos |-> position, hdr |-> header, null |-> FALSE]

\* createRecord: [st, cursor]
createRecord(st, data, length) ==
    IF isReadOnly(st) THEN [st |-> st, cursor |-> NoCursor]
    ELSE
    LET created(a) ==
            IF ~Running(a.st) \/ a.offset = NOT_FOUND
            THEN [st |-> a.st, cursor |-> NoCursor]
            ELSE [st |-> a.st, cursor |-> Cursor(a.header, a.offset)]
    IN  created(allocateRecord(st, length, UninitHeader, data, length, TRUE))

\* getRecord: [st, cursor]
getRecord(st, recordPosition) ==
    LET found(rd) ==
            IF rd.pos = NOT_FOUND \/ RECORD_DELETED_FLAG \subseteq rd.header.bitFlags
            THEN [st |-> rd.st, cursor |-> NoCursor]
            ELSE [st |-> rd.st, cursor |-> Cursor(rd.header, recordPosition)]
    IN  found(lockedReadHeader(st, recordPosition, UninitHeader))

\* getFirstRecord: [st, cursor]
getFirstRecord(st) ==
    IF st.sh.firstRecord = NOT_FOUND THEN [st |-> st, cursor |-> NoCursor]
    ELSE getRecord(st, st.sh.firstRecord)

\* getLastRecord: [st, cursor]
getLastRecord(st) ==
    IF st.sh.lastRecord = NOT_FOUND THEN [st |-> st, cursor |-> NoCursor]
    ELSE getRecord(st, st.sh.lastRecord)

\* removeRecord, after the cursor's header has been refreshed: [st, cursor]
unlinkAndFree(st, currentPosition, recordHeader) ==
    LET leftSiblingOffset == recordHeader.previous
        rightSiblingOffset == recordHeader.next
        leftSiblingExists == leftSiblingOffset # NOT_FOUND
        rightSiblingExists == rightSiblingOffset # NOT_FOUND
        lockBoth(s) == lockRecord(lockRecord(s, leftSiblingOffset, TRUE), rightSiblingOffset, TRUE)
        unlockBoth(s) ==
            unlockRecord(unlockRecord(s, leftSiblingOffset, TRUE), rightSiblingOffset, TRUE)
        free(s) == addRecordToFreeList(s, currentPosition).st
        middle(s) ==
            writeStorageHeader(setStorageHeader(s, [s.sh EXCEPT !.totalRecords = @ - 1]))
        lastOne(s) ==
            writeStorageHeader(setStorageHeader(s,
                [s.sh EXCEPT !.lastRecord = leftSiblingOffset, !.totalRecords = @ - 1]))
        firstOne(s) ==
            writeStorageHeader(setStorageHeader(s,
                [s.sh EXCEPT !.firstRecord = rightSiblingOffset, !.totalRecords = @ - 1]))
        onlyOne(s) ==
            writeStorageHeader(setStorageHeader(s,
                [s.sh EXCEPT !.firstRecord = NOT_FOUND, !.lastRecord = NOT_FOUND,
                             !.totalRecords = @ - 1]))
        \* the sibling's header as written, which the cursor takes over
        newLeft(s, value) ==
            withHeadChecksum([siblingHeader(s, leftSiblingOffset) EXCEPT !.next = value])
        newRight(s, value) ==
            withHeadChecksum([siblingHeader(s, rightSiblingOffset) EXCEPT !.previous = value])
        invalidated ==
            [pos |-> NOT_FOUND, null |-> FALSE,
             hdr |-> [recordHeader EXCEPT !.next = NOT_FOUND, !.previous = NOT_FOUND,
                                          !.dataLength = 0,
                                          !.dataChecksum = ZeroChecksum,
                                          !.headChecksum = ZeroChecksum]]
        inMiddle(s) ==
            [st |-> middle(free(unlockBoth(
                        connectSiblings(s, leftSiblingOffset, rightSiblingOffset)))),
             cursor |-> Cursor(newRight(s, leftSiblingOffset), rightSiblingOffset)]
        atEnd(s) ==
            [st |-> lastOne(free(unlockRecord(setNext(s, leftSiblingOffset, NOT_FOUND),
                                              leftSiblingOffset, TRUE))),
             cursor |-> Cursor(newLeft(s, NOT_FOUND), leftSiblingOffset)]
        atStart(s) ==
            [st |-> firstOne(free(unlockRecord(setPrevious(s, rightSiblingOffset, NOT_FOUND),
                                               rightSiblingOffset, TRUE))),
             cursor |-> Cursor(newRight(s, NOT_FOUND), rightSiblingOffset)]
    IN
    IF leftSiblingExists /\ rightSiblingExists THEN inMiddle(lockBoth(st))
    ELSE IF leftSiblingExists THEN atEnd(lockRecord(st, leftSiblingOffset, TRUE))
    ELSE IF rightSiblingExists THEN atStart(lockRecord(st, rightSiblingOffset, TRUE))
    ELSE [st |-> onlyOne(free(st)), cursor |-> invalidated]

\* removeRecord: [st, cursor, ok]
removeRecord(st, cursor) ==
    IF cursor.null \/ isReadOnly(st) THEN [st |-> st, cursor |-> cursor, ok |-> FALSE]
    ELSE
    LET removed(u, refreshed) ==
            IF Running(u.st)
            THEN [st |-> u.st, cursor |-> u.cursor, ok |-> TRUE]
            ELSE [st |-> u.st, cursor |-> refreshed, ok |-> FALSE]
        refresh(rd) ==
            IF rd.pos = NOT_FOUND \/ RECORD_DELETED_FLAG \subseteq rd.header.bitFlags
            THEN [st |-> rd.st, cursor |-> [cursor EXCEPT !.hdr = rd.header], ok |-> FALSE]
            ELSE removed(unlinkAndFree(rd.st, cursor.pos, rd.header),
                         [cursor EXCEPT !.hdr = rd.header])
    IN  refresh(lockedReadHeader(st, cursor.pos, cursor.hdr))

----------------------------------------------------------------------------
(* RecordCursor operations: [st, cursor, ok] *)

\* RecordCursor::isValid
isValid(st, cursor) ==
    IF cursor.pos = NOT_FOUND THEN [st |-> st, cursor |-> cursor, ok |-> FALSE]
    ELSE LET sampled(rd) ==
                 [st |-> rd.st, cursor |-> [cursor EXCEPT !.hdr = rd.header],
                  ok |-> ~(rd.pos = NOT_FOUND
                           \/ RECORD_DELETED_FLAG \subseteq rd.header.bitFlags)]
         IN  sampled(lockedReadHeader(st, cursor.pos, cursor.hdr))

\* RecordCursor::setPosition
setPosition(st, cursor, offset) ==
    LET positioned(rd) ==
            IF rd.pos = NOT_FOUND \/ RECORD_DELETED_FLAG \subseteq rd.header.bitFlags
            THEN [st |-> rd.st, cursor |-> [cursor EXCEPT !.hdr = rd.header, !.pos = NOT_FOUND],
                  ok |-> FALSE]
            ELSE [st |-> rd.st, cursor |-> [cursor EXCEPT !.hdr = rd.header, !.pos = offset],
                  ok |-> TRUE]
    IN  positioned(lockedReadHeader(st, offset, cursor.hdr))

\* RecordCursor::next
next(st, cursor) ==
    IF cursor.pos = NOT_FOUND \/ cursor.hdr.next = NOT_FOUND
    THEN [st |-> st, cursor |-> cursor, ok |-> FALSE]
    ELSE IF cursor.pos = st.sh.lastRecord
    THEN [st |-> st, cursor |-> cursor, ok |-> FALSE]
    ELSE setPosition(st, cursor, cursor.hdr.next)

\* RecordCursor::previous
previous(st, cursor) ==
    IF cursor.pos = NOT_FOUND \/ cursor.hdr.previous = NOT_FOUND
    THEN [st |-> st, cursor |-> cursor, ok |-> FALSE]
    ELSE IF cursor.pos = st.sh.firstRecord
    THEN [st |-> st, cursor |-> cursor, ok |-> FALSE]
    ELSE setPosition(st, cursor, cursor.hdr.previous)

\* RecordCursor::getRecordData: [st, ok, data]
getRecordData(st, cursor) ==
    LET got(r) == [st |-> r.st, ok |-> r.pos # NOT_FOUND, data |-> r.data]
    IN  got(readRecordData(st, cursor.pos))

\* RecordCursor::setRecordData: [st, ok, pos]; the cursor itself is not touched
setRecordData(st, cursor, data, length) ==
    LET written(w) == [st |-> w.st, ok |-> w.pos # NOT_FOUND, pos |-> w.pos]
    IN  written(writeRecordData(st, cursor.pos, data, length))

\* the accessors
getPosition(cursor) == cursor.pos
getDataLength(cursor) == IF cursor.pos = NOT_FOUND THEN 0 ELSE cursor.hdr.dataLength
getRecordCapacity(cursor) == IF cursor.pos = NOT_FOUND THEN 0 ELSE cursor.hdr.recordCapacity
getNextPosition(cursor) == IF cursor.pos = NOT_FOUND THEN NOT_FOUND ELSE cursor.hdr.next
getPrevPosition(cursor) == IF cursor.pos = NOT_FOUND THEN NOT_FOUND ELSE cursor.hdr.previous
getTotalRecords(st) == st.sh.totalRecords
getTotalFreeRecords(st) == st.sh.totalFreeRecords

----------------------------------------------------------------------------
(* The store after open() on an empty file, and the calls of one thread *)

\* createStorageHeader
createStorageHeader ==
    [endOfData |-> STORAGE_HEADER_SIZE,
     totalRecords |-> 0, firstRecord |-> NOT_FOUND, lastRecord |-> NOT_FOUND,
     totalFreeRecords |-> 0, firstFreeRecord |-> NOT_FOUND, lastFreeRecord |-> NOT_FOUND]

EmptyMap == [o \in {} |-> 0]

\* No CachedFileIO of its own is under study: the store's bytes are in file.
NoCache == [closed |-> TRUE]

\* No bytes of the file on disk are under study.
NoProbe == [stage |-> "none"]

\* byte strings callers pass: one of each length, no one a prefix of another
Payload(n) == [i \in 1..n |-> n + 2 * i]
Payloads == {Payload(n) : n \in 1..MaxLen}

\* last: the call (reads of the store are all "read"), the cursor it was made
\* with or on and that cursor's position then, its result, the offset it
\* returned, the data passed, and the store as it was before the call
Call(op, c, ok, pos, data) ==
    [op |-> op, c |-> c, from |-> cursors[c].pos, ok |-> ok, pos |-> pos, data |-> data,
     before |-> Engine]
ReadCall ==
    [op |-> "read", c |-> "", from |-> NOT_FOUND, ok |-> TRUE, pos |-> NOT_FOUND, data |-> <<>>,
     before |-> [file |-> EmptyMap, sh |-> createStorageHeader,
                 depth |-> FREE_RECORD_LOOKUP_DEPTH, locks |-> EmptyMap, status |-> "run",
                 mode |-> ReadWrite]]

Init ==
    /\ file = EmptyMap
    /\ storageHeader = createStorageHeader
    /\ freeLookupDepth = FREE_RECORD_LOOKUP_DEPTH
    /\ recordLocks = EmptyMap
    /\ cursors = [c \in Cursors |-> NoCursor]
    /\ status = "run"
    /\ last = ReadCall
    /\ liveOrder = <<>>
    /\ calls = 0
    /\ threads = EmptyMap
    /\ headerMutex = {}
    /\ freeListMutex = {}
    /\ lockOwners = EmptyMap
    /\ stale = {}
    /\ probe = NoProbe
    /\ mode = ReadWrite
    /\ cache = NoCache
    /\ workers = EmptyMap

\* the engine state a call leaves; a call that ran into undefined behaviour
\* hangs or throws, and the run ends there
Outcomes == {"hang", "throw"}

Commit(st) ==
    /\ file' = st.file
    /\ storageHeader' = st.sh
    /\ freeLookupDepth' = st.depth
    /\ recordLocks' = st.locks
    /\ status' \in (IF st.status = "ub" THEN Outcomes ELSE {st.status})
    /\ calls' = calls + 1
    /\ UNCHANGED <<threads, headerMutex, freeListMutex, lockOwners, cache, workers, probe, mode>>

\* the thread is still running and has calls left to make
Callable == status = "run" /\ calls < MaxCalls

WithinBounds(st) == Cardinality(DOMAIN st.file) <= MaxSlots

RemoveFrom(seq, x) == SelectSeq(seq, LAMBDA y : y # x)
ReplaceIn(seq, x, y) == [i \in DOMAIN seq |-> IF seq[i] = x THEN y ELSE seq[i]]

\* the other cursors that refer to the record c refers to
OthersOn(c) == {d \in DOMAIN cursors \ {c} : ~cursors[d].null /\ cursors[d].pos = cursors[c].pos}

\* a call that returns a cursor (or nullptr) to c
Returned(c, r) ==
    /\ Commit(r.st)
    /\ cursors' = IF Running(r.st) THEN [cursors EXCEPT ![c] = r.cursor] ELSE cursors
    /\ stale' = stale \ {c}

\* a call on the cursor c that moves or refreshes it
Moved(c, r) ==
    /\ Commit(r.st)
    /\ cursors' = [cursors EXCEPT ![c] = r.cursor]

Created(c, data, r) ==
    /\ WithinBounds(r.st)
    /\ Returned(c, r)
    /\ last' = Call("createRecord", c, Running(r.st) /\ ~r.cursor.null, r.cursor.pos, data)
    /\ liveOrder' = IF Running(r.st) /\ ~r.cursor.null
                    THEN Append(liveOrder, r.cursor.pos) ELSE liveOrder

CreateRecord(c, data) ==
    /\ Callable
    /\ Created(c, data, createRecord(Engine, data, Len(data)))

GetRecord(c, offset) ==
    /\ Callable
    /\ Returned(c, getRecord(Engine, offset))
    /\ last' = ReadCall
    /\ UNCHANGED liveOrder

GetFirstRecord(c) ==
    /\ Callable
    /\ Returned(c, getFirstRecord(Engine))
    /\ last' = ReadCall
    /\ UNCHANGED liveOrder

GetLastRecord(c) ==
    /\ Callable
    /\ Returned(c, getLastRecord(Engine))
    /\ last' = ReadCall
    /\ UNCHANGED liveOrder

Removed(c, r) ==
    /\ Moved(c, r)
    /\ last' = Call("removeRecord", c, r.ok, NOT_FOUND, <<>>)
    /\ liveOrder' = IF r.ok THEN RemoveFrom(liveOrder, cursors[c].pos) ELSE liveOrder
    /\ stale' = IF r.ok THEN stale \cup OthersOn(c) ELSE stale

RemoveRecord(c) ==
    /\ Callable
    /\ Removed(c, removeRecord(Engine, cursors[c]))

CursorNext(c) ==
    /\ Callable
    /\ ~cursors[c].null
    /\ Moved(c, next(Engine, cursors[c]))
    /\ last' = ReadCall
    /\ stale' = stale \ {c}
    /\ UNCHANGED liveOrder

CursorPrevious(c) ==
    /\ Callable
    /\ ~cursors[c].null
    /\ Moved(c, previous(Engine, cursors[c]))
    /\ last' = ReadCall
    /\ stale' = stale \ {c}
    /\ UNCHANGED liveOrder

IsValid(c) ==
    /\ Callable
    /\ ~cursors[c].null
    /\ Moved(c, isValid(Engine, cursors[c]))
    /\ last' = ReadCall
    /\ UNCHANGED <<liveOrder, stale>>

GetRecordData(c) ==
    /\ Callable
    /\ ~cursors[c].null
    /\ Commit(getRecordData(Engine, cursors[c]).st)
    /\ last' = ReadCall
    /\ UNCHANGED <<cursors, liveOrder, stale>>

Updated(c, data, r) ==
    /\ WithinBounds(r.st)
    /\ Commit(r.st)
    /\ last' = Call("setRecordData", c, Running(r.st) /\ r.ok, r.pos, data)
    /\ liveOrder' = IF Running(r.st) /\ r.ok
                    THEN ReplaceIn(liveOrder, cursors[c].pos, r.pos) ELSE liveOrder
    /\ stale' = IF Running(r.st) /\ r.ok /\ r.pos # cursors[c].pos
                THEN stale \cup OthersOn(c) ELSE stale
    /\ UNCHANGED cursors

SetRecordData(c, data) ==
    /\ Callable
    /\ ~cursors[c].null
    /\ Updated(c, data, setRecordData(Engine, cursors[c], data, Len(data)))

Next ==
    \/ \E c \in Cursors, data \in Payloads : CreateRecord(c, data)
    \/ \E c \in Cursors, offset \in DOMAIN file : GetRecord(c, offset)
    \/ \E c \in Cursors : GetFirstRecord(c)
    \/ \E c \in Cursors : GetLastRecord(c)
    \/ \E c \in Cursors : RemoveRecord(c)
    \/ \E c \in Cursors : CursorNext(c)
    \/ \E c \in Cursors : CursorPrevious(c)
    \/ \E c \in Cursors : IsValid(c)
    \/ \E c \in Cursors : GetRecordData(c)
    \/ \E c \in Cursors, data \in Payloads : SetRecordData(c, data)

Spec == Init /\ [][Next]_vars

\* the calls of a thread that only creates, removes and reads
NextCR ==
    \/ \E c \in Cursors, data \in Payloads : CreateRecord(c, data)
    \/ \E c \in Cursors, offset \in DOMAIN file : GetRecord(c, offset)
    \/ \E c \in Cursors : GetFirstRecord(c)
    \/ \E c \in Cursors : GetLastRecord(c)
    \/ \E c \in Cursors : RemoveRecord(c)
    \/ \E c \in Cursors : CursorNext(c)
    \/ \E c \in Cursors : CursorPrevious(c)
    \/ \E c \in Cursors : IsValid(c)
    \/ \E c \in Cursors : GetRecordData(c)

SpecCR == Init /\ [][NextCR]_vars

----------------------------------------------------------------------------
(* Traversals, as TestRecordFileIO makes them *)

\* the do { ... } while (cursor->next()) loop (previous() when not forward):
\* the positions the cursor visits; a walk longer than the file has slots
\* has come back to a record and is cut there
RECURSIVE walk(_, _, _, _)
walk(st, cursor, forward, fuel) ==
    IF fuel = 0 THEN <<>>
    ELSE LET stepped(step) ==
                 IF step.ok THEN walk(step.st, step.cursor, forward, fuel - 1) ELSE <<>>
         IN  <<getPosition(cursor)>> \o
             stepped(IF forward THEN next(st, cursor) ELSE previous(st, cursor))

\* readAscending: from getFirstRecord() via next()
readAscending(st) ==
    LET from(f) ==
            IF f.cursor.null THEN <<>>
            ELSE walk(f.st, f.cursor, TRUE, Cardinality(DOMAIN st.file) + 1)
    IN  from(getFirstRecord(st))

\* readDescending: from getLastRecord() via previous()
readDescending(st) ==
    LET from(l) ==
            IF l.cursor.null THEN <<>>
            ELSE walk(l.st, l.cursor, FALSE, Cardinality(DOMAIN st.file) + 1)
    IN  from(getLastRecord(st))

\* the records met by following next from offset, as the free list lookup
\* and the traversals follow it; cut where it comes back to a record
RECURSIVE chain(_, _, _)
chain(st, offset, fuel) ==
    IF offset \notin DOMAIN st.file \/ fuel = 0 THEN <<>>
    ELSE <<offset>> \o chain(st, st.file[offset].hdr.next, fuel - 1)

\* the free list: from firstFreeRecord along next
freeChain(st) == chain(st, st.sh.firstFreeRecord, Cardinality(DOMAIN st.file) + 1)

\* the live list: from firstRecord along next
liveChain(st) == chain(st, st.sh.firstRecord, Cardinality(DOMAIN st.file) + 1)

Min(x, y) == IF x <= y THEN x ELSE y

\* where on the free list getFromFreeList stops for a request of capacity:
\* the first of the free records it looks at that is large enough (0: none)
firstFit(st, capacity) ==
    LET fc == freeChain(st)
        fit == {i \in 1..Min(Len(fc), st.depth) :
                    st.file[fc[i]].hdr.recordCapacity >= capacity}
    IN  IF fit = {} THEN 0 ELSE CHOOSE i \in fit : \A j \in fit : i <= j

\* the bytes of the record at offset: its header and its capacity
slot(st, offset) ==
    offset .. (offset + RECORD_HEADER_SIZE + st.file[offset].hdr.recordCapacity - 1)

\* the record's deleted bit
isDeleted(st, offset) == RECORD_DELETED_FLAG \subseteq st.file[offset].hdr.bitFlags

Range(seq) == {seq[i] : i \in DOMAIN seq}
Reverse(seq) == [i \in DOMAIN seq |-> seq[Len(seq) + 1 - i]]
NoRepeats(seq) == \A i, j \in DOMAIN seq : seq[i] = seq[j] => i = j

----------------------------------------------------------------------------
(* Claims *)

\* C1: after creates and removes, the walk from getFirstRecord() via next()
\* visits the records created and not removed, each once, in insertion
\* order, and there are getTotalRecords() of them.
C1_ForwardWalk ==
    status = "run" =>
        /\ readAscending(Engine) = liveOrder
        /\ NoRepeats(liveOrder)
        /\ Len(readAscending(Engine)) = getTotalRecords(Engine)

\* C1, the case that fails: every record was removed and one created again
C1_RecreatedAfterRemoveAll ==
    /\ status = "run"
    /\ last.op = "createRecord" /\ last.ok
    /\ getTotalRecords(Engine) = 1
    /\ getTotalFreeRecords(Engine) = 0
    /\ readAscending(Engine) = <<>>

\* C2: after creates and removes, the walk from getLastRecord() via
\* previous() visits the offsets of the forward walk in reverse order, none
\* twice.
C2_BackwardWalk ==
    status = "run" =>
        /\ readDescending(Engine) = Reverse(readAscending(Engine))
        /\ NoRepeats(readDescending(Engine))

\* C2, the case that fails: the backward walk finds a record the forward walk misses
C2_BackwardOnly ==
    /\ status = "run"
    /\ readDescending(Engine) = liveOrder
    /\ Len(liveOrder) = 1
    /\ readAscending(Engine) = <<>>

\* C3: createRecord(s, |s|) with |s| > 0 returns a cursor, and
\* getRecord(cursor.getPosition()).getRecordData() then succeeds and yields s.
C3_CreateRoundTrip ==
    last.op = "createRecord" =>
        /\ last.ok
        /\ LET read(d) == d.ok /\ d.data = last.data
               got(g) == ~g.cursor.null /\ read(getRecordData(g.st, g.cursor))
           IN  got(getRecord(Engine, last.pos))

\* C3, the case that fails: createRecord ran into a record lock it already
\* holds and returned no cursor
C3_CreateNeverReturned ==
    /\ last.op = "createRecord" /\ ~last.ok
    /\ status \in Outcomes

\* C4: a successful removeRecord(cursor) takes the cursor's record off the
\* live list, appends it to the tail of the free list, takes one off
\* totalRecords, adds one to totalFreeRecords, and leaves the cursor on the
\* former right neighbour, else on the former left neighbour, else invalid.
C4_RemoveRecord ==
    (last.op = "removeRecord" /\ last.ok) =>
        LET pos == last.from
            right == last.before.file[pos].hdr.next
            left == last.before.file[pos].hdr.previous
        IN  /\ pos \notin Range(readAscending(Engine))
            /\ pos \notin Range(readDescending(Engine))
            /\ freeChain(Engine) = Append(freeChain(last.before), pos)
            /\ getTotalRecords(Engine) = getTotalRecords(last.before) - 1
            /\ getTotalFreeRecords(Engine) = getTotalFreeRecords(last.before) + 1
            /\ getPosition(cursors[last.c]) =
                   IF right # NOT_FOUND THEN right
                   ELSE IF left # NOT_FOUND THEN left ELSE NOT_FOUND

\* C4, the case that fails: the removed record's right neighbour was a freed
\* record, and the cursor is left on it
C4_CursorOnFreedRecord ==
    /\ last.op = "removeRecord" /\ last.ok
    /\ getPosition(cursors[last.c]) \in DOMAIN file
    /\ isDeleted(Engine, getPosition(cursors[last.c]))

\* C5: if one of the first freeLookupDepth free records has recordCapacity >=
\* len, createRecord(data, len) returns the offset of the first such record
\* in free-list order, takes it off the free list and leaves endOfData as it
\* was.
C5_RecycleFirstFit ==
    (last.op = "createRecord" /\ firstFit(last.before, Len(last.data)) # 0) =>
        LET recycled == freeChain(last.before)[firstFit(last.before, Len(last.data))]
        IN  /\ last.ok
            /\ last.pos = recycled
            /\ getPosition(cursors[last.c]) = recycled
            /\ recycled \notin Range(freeChain(Engine))
            /\ storageHeader.endOfData = last.before.sh.endOfData

\* C5, the case that fails: a free record fits and createRecord returns nothing
C5_FitNotRecycled ==
    /\ last.op = "createRecord" /\ ~last.ok
    /\ firstFit(last.before, Len(last.data)) # 0
    /\ storageHeader.totalFreeRecords = last.before.sh.totalFreeRecords - 1

\* C6: after completed createRecord, removeRecord and setRecordData calls,
\* totalFreeRecords is the number of records met by following next from
\* firstFreeRecord until NOT_FOUND, the first of them has previous ==
\* NOT_FOUND, and lastFreeRecord is the last of them, with next == NOT_FOUND.
C6_FreeList ==
    status = "run" =>
        LET fc == freeChain(Engine)
        IN  /\ NoRepeats(fc)
            /\ getTotalFreeRecords(Engine) = Len(fc)
            /\ fc # <<>> =>
                   /\ file[fc[1]].hdr.previous = NOT_FOUND
                   /\ storageHeader.lastFreeRecord = fc[Len(fc)]
                   /\ file[fc[Len(fc)]].hdr.next = NOT_FOUND

\* C6, the case that fails: a freed record has a live record as its next
C6_FreeChainRunsIntoLive ==
    /\ status = "run"
    /\ Len(freeChain(Engine)) > getTotalFreeRecords(Engine)
    /\ \E offset \in Range(freeChain(Engine)) : ~isDeleted(Engine, offset)

\* C7: after completed createRecord, removeRecord and setRecordData calls,
\* the slots of the records on the live list and on the free list are
\* pairwise disjoint and together cover exactly [STORAGE_HEADER_SIZE,
\* endOfData): no slot is on both lists, no allocated slot on neither.
C7_SlotsPartition ==
    status = "run" =>
        LET live == liveChain(Engine)
            free == freeChain(Engine)
            all == live \o free
        IN  /\ NoRepeats(all)
            /\ \A i, j \in DOMAIN all :
                   i # j => slot(Engine, all[i]) \cap slot(Engine, all[j]) = {}
            /\ UNION {slot(Engine, all[i]) : i \in DOMAIN all}
                   = STORAGE_HEADER_SIZE .. (storageHeader.endOfData - 1)
            /\ DOMAIN file = Range(all)

\* C7, the case that fails: a relocated record is on neither list and the
\* record it left is on both
C7_OnBothAndOnNeither ==
    /\ status = "run"
    /\ last.op = "setRecordData" /\ last.ok /\ last.pos # last.from
    /\ last.from \in Range(liveChain(Engine)) \cap Range(freeChain(Engine))
    /\ last.pos \notin Range(liveChain(Engine)) \cup Range(freeChain(Engine))

\* C8: after completed createRecord, removeRecord and setRecordData calls, a
\* record has its deleted bit set if and only if it is reachable on the free
\* list, and every record reachable on the live list has the bit clear.
C8_DeletedBit ==
    status = "run" =>
        /\ \A offset \in DOMAIN file :
               isDeleted(Engine, offset) <=> offset \in Range(freeChain(Engine))
        /\ \A offset \in Range(liveChain(Engine)) : ~isDeleted(Engine, offset)

\* C8, the case that fails: firstRecord is a record with the deleted bit set
C8_DeletedOnLiveList ==
    /\ status = "run"
    /\ storageHeader.firstRecord \in DOMAIN file
    /\ isDeleted(Engine, storageHeader.firstRecord)

\* C9: after setRecordData(data, len) with 0 < len <= recordCapacity returns
\* true, the cursor's position and the record's capacity are as before, the
\* cursor's getDataLength() is len and getRecordData on it returns data.
C9_InPlaceUpdate ==
    (/\ last.op = "setRecordData" /\ last.ok
     /\ Len(last.data) <= last.before.file[last.from].hdr.recordCapacity) =>
        LET cursor == cursors[last.c]
            d == getRecordData(Engine, cursor)
        IN  /\ getPosition(cursor) = last.from
            /\ last.pos = last.from
            /\ file[last.from].hdr.recordCapacity
                   = last.before.file[last.from].hdr.recordCapacity
            /\ getRecordCapacity(cursor) = file[last.from].hdr.recordCapacity
            /\ getDataLength(cursor) = Len(last.data)
            /\ d.ok /\ d.data = last.data

\* C9, the case that fails: the cursor's header is the one read before the update
C9_StaleDataLength ==
    /\ last.op = "setRecordData" /\ last.ok /\ last.pos = last.from
    /\ file[last.from].hdr.dataLength = Len(last.data)
    /\ getDataLength(cursors[last.c]) # Len(last.data)

\* C10: after setRecordData(data, len) with len > recordCapacity returns
\* true, the cursor's getPosition() is the offset of the newly allocated
\* record, not the old one, the old offset is on the free list with its
\* deleted bit set, and getRecordData on the cursor returns data.
C10_RelocatingUpdate ==
    (/\ last.op = "setRecordData" /\ last.ok
     /\ Len(last.data) > last.before.file[last.from].hdr.recordCapacity) =>
        LET cursor == cursors[last.c]
            d == getRecordData(Engine, cursor)
        IN  /\ last.pos # last.from
            /\ getPosition(cursor) = last.pos
            /\ last.from \in Range(freeChain(Engine))
            /\ isDeleted(Engine, last.from)
            /\ d.ok /\ d.data = last.data

\* C10, the case that fails: the cursor stays on the record that was freed
C10_CursorLeftBehind ==
    /\ last.op = "setRecordData" /\ last.ok /\ last.pos # last.from
    /\ getPosition(cursors[last.c]) = last.from
    /\ isDeleted(Engine, last.from)
    /\ ~getRecordData(Engine, cursors[last.c]).ok

\* C11: a relocating setRecordData keeps the record's place in the live list:
\* the former left neighbour's next and the former right neighbour's previous
\* are the new offset, firstRecord (lastRecord) is the new offset when the
\* record was the head (tail), and getTotalRecords() is unchanged.
C11_RelocationKeepsPlace ==
    (last.op = "setRecordData" /\ last.ok /\ last.pos # last.from) =>
        LET old == last.before.file[last.from].hdr
        IN  /\ old.previous \in DOMAIN file => file[old.previous].hdr.next = last.pos
            /\ old.next \in DOMAIN file => file[old.next].hdr.previous = last.pos
            /\ last.before.sh.firstRecord = last.from => storageHeader.firstRecord = last.pos
            /\ last.before.sh.lastRecord = last.from => storageHeader.lastRecord = last.pos
            /\ getTotalRecords(Engine) = getTotalRecords(last.before)

\* C11, the case that fails: the only record was relocated and the storage
\* header still names the slot it left as head and tail
C11_HeadAndTailLeftBehind ==
    /\ last.op = "setRecordData" /\ last.ok /\ last.pos # last.from
    /\ getTotalRecords(Engine) = 1
    /\ file[last.pos].hdr.previous = NOT_FOUND /\ file[last.pos].hdr.next = NOT_FOUND
    /\ storageHeader.firstRecord = last.from /\ storageHeader.lastRecord = last.from

----------------------------------------------------------------------------
(* A longer run of one thread on a larger file: it edits records in its     *)
(* first calls, then creates, removes and looks records up                  *)

EditSlots == 5       \* slots ever allocated in the file
EditCalls == 10      \* calls the thread makes
EditBy == 2          \* setRecordData is among the first EditBy calls

CallableE == status = "run" /\ calls < EditCalls

WithinEditBounds(st) == Cardinality(DOMAIN st.file) <= EditSlots

CreatedE(c, data, r) ==
    /\ WithinEditBounds(r.st)
    /\ Returned(c, r)
    /\ last' = Call("createRecord", c, Running(r.st) /\ ~r.cursor.null, r.cursor.pos, data)
    /\ liveOrder' = IF Running(r.st) /\ ~r.cursor.null
                    THEN Append(liveOrder, r.cursor.pos) ELSE liveOrder

CreateRecordE(c, data) ==
    /\ CallableE
    /\ CreatedE(c, data, createRecord(Engine, data, Len(data)))

GetRecordE(c, offset) ==
    /\ CallableE
    /\ Returned(c, getRecord(Engine, offset))
    /\ last' = ReadCall
    /\ UNCHANGED liveOrder

RemoveRecordE(c) ==
    /\ CallableE
    /\ Removed(c, removeRecord(Engine, cursors[c]))

UpdatedE(c, data, r) ==
    /\ WithinEditBounds(r.st)
    /\ Commit(r.st)
    /\ last' = Call("setRecordData", c, Running(r.st) /\ r.ok, r.pos, data)
    /\ liveOrder' = IF Running(r.st) /\ r.ok
                    THEN ReplaceIn(liveOrder, cursors[c].pos, r.pos) ELSE liveOrder
    /\ stale' = IF Running(r.st) /\ r.ok /\ r.pos # cursors[c].pos
                THEN stale \cup OthersOn(c) ELSE stale
    /\ UNCHANGED cursors

SetRecordDataE(c, data) ==
    /\ CallableE
    /\ calls < EditBy
    /\ ~cursors[c].null
    /\ UpdatedE(c, data, setRecordData(Engine, cursors[c], data, Len(data)))

NextEdit ==
    \/ \E c \in Cursors, data \in Payloads : CreateRecordE(c, data)
    \/ \E c \in Cursors, offset \in DOMAIN file : GetRecordE(c, offset)
    \/ \E c \in Cursors : RemoveRecordE(c)
    \/ \E c \in Cursors, data \in Payloads : SetRecordDataE(c, data)

SpecEdit == Init /\ [][NextEdit]_vars

\* C12: after createRecord, removeRecord and setRecordData calls, the walk
\* from getFirstRecord() via next() ends after at most getTotalRecords()
\* records and visits no offset twice, and no record it visits is its own
\* previous.
C12_NoCycle ==
    status = "run" =>
        LET w == readAscending(Engine)
        IN  /\ NoRepeats(w)
            /\ Len(w) <= getTotalRecords(Engine)
            /\ \A i \in DOMAIN w : file[w[i]].hdr.previous # w[i]

\* C12, the case that fails: two live records are each other's next, and the
\* walk from getFirstRecord() goes round them
C12_WalkGoesRound ==
    /\ status = "run"
    /\ storageHeader.firstRecord \in DOMAIN file
    /\ LET first == storageHeader.firstRecord
           second == file[first].hdr.next
       IN  /\ second \in DOMAIN file /\ second # first
           /\ file[second].hdr.next = first
           /\ ~isDeleted(Engine, first) /\ ~isDeleted(Engine, second)
           /\ storageHeader.lastRecord \notin {first, second}
    /\ ~NoRepeats(readAscending(Engine))

----------------------------------------------------------------------------
(* Several threads on one store.  A call is made in steps: a step begins   *)
(* where the thread takes headerMutex, freeListMutex or a record lock, and *)
(* runs to the next such place.  A thread whose lock is not free waits.    *)

MTCalls == 2         \* calls each thread makes

MTThreads == {"t1", "t2"}

\* the records created (their payload lengths, in order) and the number of
\* them removed again, oldest first, before the threads start
PreparedLengths == <<1, 2, 1, 1>>
Preparations == {<<0, 0>>, <<1, 0>>, <<4, 3>>}

RECURSIVE createAll(_, _)
createAll(st, lengths) ==
    IF lengths = <<>> THEN st
    ELSE createAll(createRecord(st, Payload(Head(lengths)), Head(lengths)).st, Tail(lengths))

RECURSIVE removeFirst(_, _)
removeFirst(st, n) ==
    IF n = 0 THEN st
    ELSE removeFirst(removeRecord(st, getFirstRecord(st).cursor).st, n - 1)

Prepared(p) ==
    removeFirst(createAll(ReadCall.before, SubSeq(PreparedLengths, 1, p[1])), p[2])

\* a thread between calls; the locals of a call are named as in the code
NoThread ==
    [pc |-> "idle", op |-> "", data |-> <<>>, updateHeader |-> FALSE,
     result |-> UninitHeader, offset |-> NOT_FOUND, recordHeader |-> UninitHeader,
     freeRecord |-> UninitHeader, freeRecordOffset |-> NOT_FOUND,
     iterationCounter |-> 0, maximumIterations |-> 0,
     newOffset |-> NOT_FOUND, previous |-> NOT_FOUND, lastRecordOffset |-> NOT_FOUND,
     cursor |-> NoCursor, made |-> 0, returned |-> <<>>]

\* std::shared_mutex: free for an exclusive holder when nobody holds it, for
\* a shared holder when no one holds it exclusively
Me(t, exclusive) == <<t, exclusive>>
Holders(owners, offset) == IF offset \in DOMAIN owners THEN owners[offset] ELSE {}

LockAt(owners, offset, holder) ==
    [o \in DOMAIN owners \cup {offset} |->
        IF o = offset THEN Holders(owners, offset) \cup {holder} ELSE owners[o]]

UnlockAt(owners, offset, holder) ==
    IF Holders(owners, offset) \ {holder} = {}
    THEN [o \in DOMAIN owners \ {offset} |-> owners[o]]
    ELSE [o \in DOMAIN owners |-> IF o = offset THEN owners[o] \ {holder} ELSE owners[o]]

\* the lock words of recordLocks
LockWords(owners) ==
    [o \in DOMAIN owners |->
        IF \E h \in owners[o] : h[2] THEN -1 ELSE Cardinality(owners[o])]

HeaderLock(exclusive) == [lock |-> "header", offset |-> NOT_FOUND, exclusive |-> exclusive]
FreeListLock == [lock |-> "freeList", offset |-> NOT_FOUND, exclusive |-> TRUE]
RecordLockAt(offset, exclusive) == [lock |-> "record", offset |-> offset, exclusive |-> exclusive]
NoLock == [lock |-> "none", offset |-> NOT_FOUND, exclusive |-> FALSE]

\* the lock a thread takes next
Wants(th) ==
    CASE th.pc \in {"allocate", "gf_read", "gf_prev"} -> HeaderLock(FALSE)
      [] th.pc \in {"cf_header", "rm_header", "gf_count", "ap_header", "fr_header"} ->
             HeaderLock(TRUE)
      [] th.pc = "gf_enter" -> FreeListLock
      [] th.pc = "cf_store" -> RecordLockAt(STORAGE_HEADER_SIZE, TRUE)
      [] th.pc \in {"gf_lock", "ap_store"} -> RecordLockAt(th.freeRecordOffset, TRUE)
      [] th.pc = "rm_left" -> RecordLockAt(th.freeRecord.previous, TRUE)
      [] th.pc = "rm_right" -> RecordLockAt(th.freeRecord.next, TRUE)
      [] th.pc \in {"gf_prevlock", "fr_prev"} -> RecordLockAt(th.previous, TRUE)
      [] th.pc = "ap_last" -> RecordLockAt(th.lastRecordOffset, TRUE)
      [] th.pc \in {"wr_lock", "fr_mark"} -> RecordLockAt(th.offset, TRUE)
      [] th.pc = "fr_read" -> RecordLockAt(th.offset, FALSE)
      [] th.pc = "wr_new" -> RecordLockAt(th.newOffset, TRUE)
      [] th.pc = "wr_left" -> RecordLockAt(th.recordHeader.previous, TRUE)
      [] th.pc = "wr_right" -> RecordLockAt(th.recordHeader.next, TRUE)
      [] th.pc = "del_read" -> RecordLockAt(th.offset, FALSE)
      [] th.pc = "del_left" -> RecordLockAt(th.recordHeader.previous, TRUE)
      [] th.pc \in {"del_both", "del_right"} -> RecordLockAt(th.recordHeader.next, TRUE)
      [] th.pc = "del_header" -> HeaderLock(TRUE)
      [] th.pc = "ip_lock" -> RecordLockAt(th.offset, TRUE)
      [] th.pc = "rd_lock" -> RecordLockAt(th.offset, FALSE)
      [] OTHER -> NoLock

HoldersOf(w) ==
    CASE w.lock = "header" -> headerMutex
      [] w.lock = "freeList" -> freeListMutex
      [] w.lock = "record" -> Holders(lockOwners, w.offset)
      [] OTHER -> {}

\* a mutex that lets every thread in
alwaysFree(holders, exclusive) == TRUE

Free(holders, exclusive) == IF exclusive THEN holders = {} ELSE \A h \in holders : ~h[2]
Owns(holders, t) == \E h \in holders : h[1] = t

\* thread t is at pc and the lock it takes there is free
At(t, pc) ==
    /\ status = "run"
    /\ threads[t].pc = pc
    /\ Free(HoldersOf(Wants(threads[t])), Wants(threads[t]).exclusive)
    /\ ~Owns(HoldersOf(Wants(threads[t])), t)

\* what a step leaves
MT(t, st, th, hm, fl, lo) ==
    /\ file' = st.file
    /\ storageHeader' = st.sh
    /\ freeLookupDepth' = st.depth
    /\ threads' = [threads EXCEPT ![t] = th]
    /\ headerMutex' = hm
    /\ freeListMutex' = fl
    /\ lockOwners' = lo
    /\ recordLocks' = LockWords(lo)
    /\ UNCHANGED <<cursors, status, last, liveOrder, calls, stale, cache, workers, probe, mode>>

\* the call returns: the thread keeps its cursor and what createRecord gave it
finishedCall(th, cursor, returned) ==
    [NoThread EXCEPT !.cursor = cursor, !.made = th.made + 1, !.returned = returned]

\* allocateRecord returns offset to createRecord or to writeRecordData
afterAllocate(th, offset) ==
    IF th.op = "createRecord"
    THEN finishedCall(th, IF offset = NOT_FOUND THEN NoCursor ELSE Cursor(th.result, offset),
                      Append(th.returned, offset))
    ELSE IF offset = NOT_FOUND THEN finishedCall(th, th.cursor, th.returned)
    ELSE [th EXCEPT !.newOffset = offset, !.pc = "wr_new",
                    !.freeRecord = UninitHeader, !.freeRecordOffset = NOT_FOUND,
                    !.iterationCounter = 0, !.maximumIterations = 0,
                    !.previous = NOT_FOUND, !.lastRecordOffset = NOT_FOUND]

\* allocateRecord goes on to appendNewRecord, which fills result
toAppend(th) ==
    IF Len(th.data) = 0 THEN afterAllocate(th, NOT_FOUND)
    ELSE [th EXCEPT !.pc = "ap_header",
                    !.freeRecord = UninitHeader, !.freeRecordOffset = NOT_FOUND,
                    !.iterationCounter = 0, !.maximumIterations = 0,
                    !.result = [@ EXCEPT !.next = NOT_FOUND, !.recordCapacity = Len(th.data),
                                         !.bitFlags = {}, !.dataLength = Len(th.data),
                                         !.dataChecksum = checksum(th.data, Len(th.data))]]

\* getFromFreeList, the loop condition
lookup(th) ==
    IF th.freeRecord.next # NOT_FOUND /\ th.iterationCounter < th.maximumIterations
    THEN [th EXCEPT !.pc = "gf_lock"]
    ELSE toAppend(th)

\* freeListMutex once getFromFreeList has gone on as th
freeLockAfter(th, t) ==
    IF th.pc = "gf_lock" THEN freeListMutex ELSE freeListMutex \ {Me(t, TRUE)}

\* createRecord, to the call of allocateRecord
CreateRecordMT(t, data) ==
    /\ At(t, "idle")
    /\ threads[t].made < MTCalls
    /\ MT(t, Engine,
          [threads[t] EXCEPT !.pc = "allocate", !.op = "createRecord", !.data = data,
                             !.updateHeader = TRUE, !.result = UninitHeader],
          headerMutex, freeListMutex, lockOwners)

\* allocateRecord: noFreeRecords is read under the shared header lock
AllocateCheck(t) ==
    /\ At(t, "allocate")
    /\ MT(t, Engine,
          [threads[t] EXCEPT !.pc =
              IF storageHeader.firstFreeRecord = NOT_FOUND
                 /\ storageHeader.lastRecord = NOT_FOUND
              THEN "cf_header" ELSE "gf_enter"],
          headerMutex, freeListMutex, lockOwners)

\* createFirstRecord: the header fields, under the exclusive header lock
CreateFirstHeader(t) ==
    /\ At(t, "cf_header")
    /\ MT(t,
          setStorageHeader(Engine,
              [storageHeader EXCEPT
                  !.firstRecord = STORAGE_HEADER_SIZE,
                  !.lastRecord = STORAGE_HEADER_SIZE,
                  !.endOfData = STORAGE_HEADER_SIZE + RECORD_HEADER_SIZE + Len(threads[t].data),
                  !.totalRecords = @ + 1]),
          [threads[t] EXCEPT
              !.pc = "cf_store",
              !.result = withHeadChecksum(
                  [@ EXCEPT !.next = NOT_FOUND, !.previous = NOT_FOUND,
                            !.dataLength = Len(threads[t].data),
                            !.recordCapacity = Len(threads[t].data),
                            !.bitFlags = {},
                            !.dataChecksum = checksum(threads[t].data, Len(threads[t].data))])],
          headerMutex \cup {Me(t, TRUE)}, freeListMutex, lockOwners)

\* createFirstRecord: the record is written under its lock, the header lock
\* is released and the storage header written
CreateFirstStore(t) ==
    /\ At(t, "cf_store")
    /\ MT(t,
          writeStorageHeader(
              cachedWriteData(
                  cachedWriteHeader(Engine, STORAGE_HEADER_SIZE, threads[t].result),
                  STORAGE_HEADER_SIZE, threads[t].data, Len(threads[t].data))),
          afterAllocate(threads[t], STORAGE_HEADER_SIZE),
          headerMutex \ {Me(t, TRUE)}, freeListMutex, lockOwners)

\* getFromFreeList: freeListMutex is taken for the whole function
FreeListEnter(t) ==
    /\ At(t, "gf_enter")
    /\ MT(t, Engine, [threads[t] EXCEPT !.pc = "gf_read"],
          headerMutex, freeListMutex \cup {Me(t, TRUE)}, lockOwners)

\* getFromFreeList: the free list's head is read under the shared header lock
freeListRead(th) ==
    IF storageHeader.totalFreeRecords = 0 THEN toAppend(th)
    ELSE lookup([th EXCEPT !.freeRecord = [UninitHeader EXCEPT
                                              !.next = storageHeader.firstFreeRecord],
                           !.freeRecordOffset = storageHeader.firstFreeRecord,
                           !.maximumIterations = freeLookupDepth,
                           !.iterationCounter = 0])

FreeListRead(t) ==
    /\ At(t, "gf_read")
    /\ MT(t, Engine, freeListRead(threads[t]),
          headerMutex, freeLockAfter(freeListRead(threads[t]), t), lockOwners)

\* getFromFreeList: the free record is locked and read; one that fits is
\* taken (removeRecordFromFreeList follows), another is unlocked and passed
examined(th, fr) ==
    IF fr.recordCapacity >= Len(th.data) /\ RECORD_DELETED_FLAG \subseteq fr.bitFlags
    THEN [th EXCEPT !.freeRecord = fr,
                    !.pc = IF fr.previous # NOT_FOUND THEN "rm_left"
                           ELSE IF fr.next # NOT_FOUND THEN "rm_right"
                           ELSE "rm_header"]
    ELSE lookup([th EXCEPT !.freeRecord = fr, !.freeRecordOffset = fr.next,
                           !.iterationCounter = @ + 1])

examine(t, th) ==
    MT(t, Engine, th, headerMutex, freeLockAfter(th, t),
       IF th.pc \in {"rm_left", "rm_right", "rm_header"}
       THEN LockAt(lockOwners, threads[t].freeRecordOffset, Me(t, TRUE))
       ELSE lockOwners)

FreeListExamine(t) ==
    /\ At(t, "gf_lock")
    /\ examine(t, examined(threads[t],
                   readRecordHeader(Engine, threads[t].freeRecordOffset,
                                    threads[t].freeRecord).header))

\* removeRecordFromFreeList: the left sibling is locked; with no right
\* sibling its next is cut at once
UnlinkLeft(t) ==
    /\ At(t, "rm_left")
    /\ IF threads[t].freeRecord.next # NOT_FOUND
       THEN MT(t, Engine, [threads[t] EXCEPT !.pc = "rm_right"],
               headerMutex, freeListMutex,
               LockAt(lockOwners, threads[t].freeRecord.previous, Me(t, TRUE)))
       ELSE MT(t, setNext(Engine, threads[t].freeRecord.previous, NOT_FOUND),
               [threads[t] EXCEPT !.pc = "rm_header"],
               headerMutex, freeListMutex, lockOwners)

\* removeRecordFromFreeList: the right sibling is locked; the siblings are
\* connected, or the right one's previous is cut
UnlinkRight(t) ==
    /\ At(t, "rm_right")
    /\ IF threads[t].freeRecord.previous # NOT_FOUND
       THEN MT(t, connectSiblings(Engine, threads[t].freeRecord.previous,
                                  threads[t].freeRecord.next),
               [threads[t] EXCEPT !.pc = "rm_header"],
               headerMutex, freeListMutex,
               UnlockAt(lockOwners, threads[t].freeRecord.previous, Me(t, TRUE)))
       ELSE MT(t, setPrevious(Engine, threads[t].freeRecord.next, NOT_FOUND),
               [threads[t] EXCEPT !.pc = "rm_header"],
               headerMutex, freeListMutex, lockOwners)

\* removeRecordFromFreeList: the storage header, under the exclusive lock
unlinkedHeader(fr) ==
    [storageHeader EXCEPT
        !.totalFreeRecords = @ - 1,
        !.firstFreeRecord = IF fr.previous = NOT_FOUND THEN fr.next ELSE @,
        !.lastFreeRecord = IF fr.next = NOT_FOUND THEN fr.previous ELSE @]

\* getFromFreeList: result as filled once the free record is off the list
recycledResult(th) ==
    [th.result EXCEPT !.recordCapacity = th.freeRecord.recordCapacity,
                      !.dataLength = Len(th.data),
                      !.dataChecksum = checksum(th.data, Len(th.data)),
                      !.bitFlags = th.freeRecord.bitFlags \ RECORD_DELETED_FLAG]

\* getFromFreeList: the new header and the data are written into the free
\* record and its lock is released
recycledStore(st, th) ==
    cachedWriteData(cachedWriteHeader(st, th.freeRecordOffset, withHeadChecksum(th.result)),
                    th.freeRecordOffset, th.data, Len(th.data))

UnlinkHeader(t) ==
    /\ At(t, "rm_header")
    /\ IF threads[t].updateHeader
       THEN MT(t, writeStorageHeader(setStorageHeader(Engine,
                                                      unlinkedHeader(threads[t].freeRecord))),
               [threads[t] EXCEPT !.pc = "gf_prev", !.result = recycledResult(threads[t])],
               headerMutex, freeListMutex, lockOwners)
       ELSE MT(t, recycledStore(
                      writeStorageHeader(setStorageHeader(Engine,
                                             unlinkedHeader(threads[t].freeRecord))),
                      [threads[t] EXCEPT !.result = recycledResult(threads[t])]),
               afterAllocate([threads[t] EXCEPT
                                 !.result = withHeadChecksum(recycledResult(threads[t]))],
                             threads[t].freeRecordOffset),
               headerMutex, freeListMutex \ {Me(t, TRUE)},
               UnlockAt(lockOwners, threads[t].freeRecordOffset, Me(t, TRUE)))

\* getFromFreeList, createNewRecord: lastRecord is read under the shared
\* header lock, which is kept
RecyclePrevious(t) ==
    /\ At(t, "gf_prev")
    /\ MT(t, Engine,
          [threads[t] EXCEPT !.pc = "gf_prevlock",
                             !.previous = storageHeader.lastRecord,
                             !.result = [@ EXCEPT !.next = NOT_FOUND,
                                                  !.previous = storageHeader.lastRecord]],
          headerMutex \cup {Me(t, FALSE)}, freeListMutex, lockOwners)

\* getFromFreeList, createNewRecord: the previous record is locked and
\* connected, the header lock released, and the new record stored
RecycleConnect(t) ==
    /\ At(t, "gf_prevlock")
    /\ MT(t, recycledStore(setNext(Engine, threads[t].previous, threads[t].freeRecordOffset),
                           threads[t]),
          [threads[t] EXCEPT !.pc = "gf_count", !.result = withHeadChecksum(@)],
          headerMutex \ {Me(t, FALSE)}, freeListMutex,
          UnlockAt(lockOwners, threads[t].freeRecordOffset, Me(t, TRUE)))

\* getFromFreeList, createNewRecord: lastRecord and totalRecords, under the
\* exclusive header lock
RecycleCount(t) ==
    /\ At(t, "gf_count")
    /\ MT(t, writeStorageHeader(setStorageHeader(Engine,
                 [storageHeader EXCEPT !.lastRecord = threads[t].freeRecordOffset,
                                       !.totalRecords = @ + 1])),
          afterAllocate(threads[t], threads[t].freeRecordOffset),
          headerMutex, freeListMutex \ {Me(t, TRUE)}, lockOwners)

\* appendNewRecord: the storage header, under the exclusive lock, which is
\* kept to the end
AppendHeader(t) ==
    /\ At(t, "ap_header")
    /\ MT(t, setStorageHeader(Engine,
                 [storageHeader EXCEPT
                     !.endOfData = @ + RECORD_HEADER_SIZE + Len(threads[t].data),
                     !.lastRecord = IF threads[t].updateHeader
                                    THEN storageHeader.endOfData ELSE @,
                     !.totalRecords = IF threads[t].updateHeader THEN @ + 1 ELSE @]),
          [threads[t] EXCEPT
              !.pc = IF threads[t].updateHeader THEN "ap_last" ELSE "ap_store",
              !.lastRecordOffset = storageHeader.lastRecord,
              !.freeRecordOffset = storageHeader.endOfData,
              !.result = IF threads[t].updateHeader
                         THEN withHeadChecksum([@ EXCEPT !.previous = storageHeader.lastRecord])
                         ELSE @],
          headerMutex \cup {Me(t, TRUE)}, freeListMutex, lockOwners)

\* appendNewRecord, updateHeader: the last record is locked and connected
AppendConnect(t) ==
    /\ At(t, "ap_last")
    /\ MT(t, setNext(Engine, threads[t].lastRecordOffset, threads[t].freeRecordOffset),
          [threads[t] EXCEPT !.pc = "ap_store"],
          headerMutex, freeListMutex, lockOwners)

\* appendNewRecord: the record is written under its lock, the header lock
\* released and the storage header written
AppendStore(t) ==
    /\ At(t, "ap_store")
    /\ MT(t, writeStorageHeader(
                 cachedWriteData(
                     cachedWriteHeader(Engine, threads[t].freeRecordOffset, threads[t].result),
                     threads[t].freeRecordOffset, threads[t].data, Len(threads[t].data))),
          afterAllocate(threads[t], threads[t].freeRecordOffset),
          headerMutex \ {Me(t, TRUE)}, freeListMutex, lockOwners)

\* a thread locks a mutex it holds already: undefined, the run ends
Relock(t) ==
    /\ status = "run"
    /\ Owns(HoldersOf(Wants(threads[t])), t)
    /\ status' \in Outcomes
    /\ UNCHANGED <<file, storageHeader, freeLookupDepth, recordLocks, cursors, last,
                   liveOrder, calls, threads, headerMutex, freeListMutex, lockOwners, stale, cache, workers, probe, mode>>

\* the store as prepared, and threads that have no cursor yet
InitCreate ==
    /\ \E p \in Preparations :
          /\ file = Prepared(p).file
          /\ storageHeader = Prepared(p).sh
          /\ freeLookupDepth = Prepared(p).depth
          /\ last = [ReadCall EXCEPT !.before = Prepared(p)]
    /\ recordLocks = EmptyMap
    /\ cursors = [c \in Cursors |-> NoCursor]
    /\ status = "run"
    /\ liveOrder = <<>>
    /\ calls = 0
    /\ threads = [t \in MTThreads |-> NoThread]
    /\ headerMutex = {}
    /\ freeListMutex = {}
    /\ lockOwners = EmptyMap
    /\ stale = {}
    /\ probe = NoProbe
    /\ mode = ReadWrite
    /\ cache = NoCache
    /\ workers = EmptyMap

\* the threads of TestRecordFileIO::multithreaded that generate data
NextCreate ==
    \/ \E t \in MTThreads, data \in Payloads : CreateRecordMT(t, data)
    \/ \E t \in MTThreads : AllocateCheck(t)
    \/ \E t \in MTThreads : CreateFirstHeader(t)
    \/ \E t \in MTThreads : CreateFirstStore(t)
    \/ \E t \in MTThreads : FreeListEnter(t)
    \/ \E t \in MTThreads : FreeListRead(t)
    \/ \E t \in MTThreads : FreeListExamine(t)
    \/ \E t \in MTThreads : UnlinkLeft(t)
    \/ \E t \in MTThreads : UnlinkRight(t)
    \/ \E t \in MTThreads : UnlinkHeader(t)
    \/ \E t \in MTThreads : RecyclePrevious(t)
    \/ \E t \in MTThreads : RecycleConnect(t)
    \/ \E t \in MTThreads : RecycleCount(t)
    \/ \E t \in MTThreads : AppendHeader(t)
    \/ \E t \in MTThreads : AppendConnect(t)
    \/ \E t \in MTThreads : AppendStore(t)

SpecCreate == InitCreate /\ [][NextCreate]_vars

\* every thread has made its calls and is back from the last
AllReturned == \A t \in MTThreads : threads[t].pc = "idle" /\ threads[t].made = MTCalls

\* the offsets createRecord returned, thread by thread
RECURSIVE allReturned(_)
allReturned(ts) ==
    IF ts = {} THEN <<>>
    ELSE LET t == CHOOSE x \in ts : TRUE
         IN  threads[t].returned \o allReturned(ts \ {t})

----------------------------------------------------------------------------
(* C13: when the threads have made their createRecord calls, the record    *)
(* count has grown by the number of calls, the offsets returned are        *)
(* pairwise distinct, and the ascending traversal visits each created      *)
(* record once and its payload reads back with a valid checksum            *)
C13_ConcurrentCreate ==
    (status = "run" /\ AllReturned) =>
        LET made == allReturned(MTThreads)
            w == readAscending(Engine)
        IN  /\ getTotalRecords(Engine)
                 = getTotalRecords(last.before) + Cardinality(MTThreads) * MTCalls
            /\ NOT_FOUND \notin Range(made)
            /\ NoRepeats(made)
            /\ \A i \in DOMAIN made :
                  /\ Cardinality({j \in DOMAIN w : w[j] = made[i]}) = 1
                  /\ readRecordData(Engine, made[i]).pos # NOT_FOUND

\* both threads were given the first record's offset on an empty store
C13_SameOffsetTwice ==
    /\ status = "run"
    /\ AllReturned
    /\ getTotalRecords(last.before) = 0
    /\ \E t, u \in MTThreads :
          /\ t # u
          /\ threads[t].returned[1] = STORAGE_HEADER_SIZE
          /\ threads[u].returned[1] = STORAGE_HEADER_SIZE

----------------------------------------------------------------------------
(* setRecordData by a thread through its own cursor *)

\* RecordCursor::setRecordData, to the call of writeRecordData
SetRecordDataMT(t, data) ==
    /\ At(t, "idle")
    /\ threads[t].made < MTCalls
    /\ ~threads[t].cursor.null
    /\ MT(t, Engine,
          [threads[t] EXCEPT !.pc = "wr_lock", !.op = "setRecordData", !.data = data,
                             !.offset = threads[t].cursor.pos],
          headerMutex, freeListMutex, lockOwners)

\* writeRecordData: the record is locked and its header read; data that fits
\* is written in place, otherwise allocateRecord is called with the lock held
writeLocked(t, th, rd) ==
    IF rd.pos = NOT_FOUND \/ RECORD_DELETED_FLAG \subseteq rd.header.bitFlags
    THEN MT(t, Engine, finishedCall(th, th.cursor, th.returned),
            headerMutex, freeListMutex, lockOwners)
    ELSE IF Len(th.data) <= rd.header.recordCapacity
    THEN MT(t, cachedWriteData(
                   cachedWriteHeader(Engine, th.offset,
                       withHeadChecksum([rd.header EXCEPT
                           !.dataLength = Len(th.data),
                           !.dataChecksum = checksum(th.data, Len(th.data))])),
                   th.offset, th.data, Len(th.data)),
            finishedCall(th, th.cursor, th.returned),
            headerMutex, freeListMutex, lockOwners)
    ELSE MT(t, Engine,
            [th EXCEPT !.pc = "allocate", !.recordHeader = rd.header, !.result = rd.header,
                       !.updateHeader = FALSE],
            headerMutex, freeListMutex, LockAt(lockOwners, th.offset, Me(t, TRUE)))

WriteLock(t) ==
    /\ At(t, "wr_lock")
    /\ writeLocked(t, threads[t], readRecordHeader(Engine, threads[t].offset, UninitHeader))

\* writeRecordData: the new location is locked, the old one unlocked
WriteNewLock(t) ==
    /\ At(t, "wr_new")
    /\ MT(t, Engine, [threads[t] EXCEPT !.pc = "fr_read"],
          headerMutex, freeListMutex,
          UnlockAt(LockAt(lockOwners, threads[t].newOffset, Me(t, TRUE)),
                   threads[t].offset, Me(t, TRUE)))

\* addRecordToFreeList: the header is read under the shared record lock
\* (newFreeRecord is kept in freeRecord); writeRecordData returns NOT_FOUND
\* when it is not a live record's, removeRecord does not look at the result
freeRead(th, rd) ==
    IF rd.pos = NOT_FOUND \/ RECORD_DELETED_FLAG \subseteq rd.header.bitFlags
    THEN IF th.op = "removeRecord" THEN [th EXCEPT !.pc = "del_header"]
         ELSE finishedCall(th, th.cursor, th.returned)
    ELSE [th EXCEPT !.pc = "fr_header", !.freeRecord = rd.header]

FreeRead(t) ==
    /\ At(t, "fr_read")
    /\ MT(t, Engine,
          freeRead(threads[t], readRecordHeader(Engine, threads[t].offset, UninitHeader)),
          headerMutex, freeListMutex, lockOwners)

\* addRecordToFreeList: the storage header, under the exclusive lock
FreeHeader(t) ==
    /\ At(t, "fr_header")
    /\ MT(t, writeStorageHeader(setStorageHeader(Engine,
                 [storageHeader EXCEPT
                     !.firstFreeRecord = IF @ = NOT_FOUND THEN threads[t].offset ELSE @,
                     !.lastFreeRecord = threads[t].offset,
                     !.totalFreeRecords = @ + 1])),
          [threads[t] EXCEPT
              !.pc = IF storageHeader.lastFreeRecord # NOT_FOUND THEN "fr_prev" ELSE "fr_mark",
              !.previous = storageHeader.lastFreeRecord],
          headerMutex, freeListMutex, lockOwners)

\* addRecordToFreeList: the previous free record is locked and connected
FreeConnect(t) ==
    /\ At(t, "fr_prev")
    /\ MT(t, setNext(Engine, threads[t].previous, threads[t].offset),
          [threads[t] EXCEPT !.pc = "fr_mark"],
          headerMutex, freeListMutex, lockOwners)

\* writeRecordData: the new record's header is written with the old one's
\* siblings and its lock released
placed(t, st, th) ==
    MT(t, writeRecordHeader(st, th.newOffset,
              [th.result EXCEPT !.previous = th.recordHeader.previous,
                                !.next = th.recordHeader.next]),
       finishedCall(th, th.cursor, th.returned),
       headerMutex, freeListMutex, UnlockAt(lockOwners, th.newOffset, Me(t, TRUE)))

\* addRecordToFreeList: the old record is locked and marked deleted;
\* writeRecordData goes on to the siblings, removeRecord to the storage header
freeMarked(t, st, th) ==
    IF th.op = "removeRecord"
    THEN MT(t, st, [th EXCEPT !.pc = "del_header"], headerMutex, freeListMutex, lockOwners)
    ELSE IF th.recordHeader.previous # NOT_FOUND
    THEN MT(t, st, [th EXCEPT !.pc = "wr_left"], headerMutex, freeListMutex, lockOwners)
    ELSE IF th.recordHeader.next # NOT_FOUND
    THEN MT(t, st, [th EXCEPT !.pc = "wr_right"], headerMutex, freeListMutex, lockOwners)
    ELSE placed(t, st, th)

FreeMark(t) ==
    /\ At(t, "fr_mark")
    /\ freeMarked(t,
           writeRecordHeader(Engine, threads[t].offset,
               [threads[t].freeRecord EXCEPT
                   !.next = NOT_FOUND, !.previous = threads[t].previous,
                   !.dataLength = 0, !.dataChecksum = ZeroChecksum,
                   !.bitFlags = @ \cup RECORD_DELETED_FLAG]),
           threads[t])

\* writeRecordData: the left sibling is locked and connected
writtenLeft(t, st, th) ==
    IF th.recordHeader.next # NOT_FOUND
    THEN MT(t, st, [th EXCEPT !.pc = "wr_right"], headerMutex, freeListMutex, lockOwners)
    ELSE placed(t, st, th)

WriteLeft(t) ==
    /\ At(t, "wr_left")
    /\ writtenLeft(t, setNext(Engine, threads[t].recordHeader.previous, threads[t].newOffset),
                   threads[t])

\* writeRecordData: the right sibling is locked and connected
WriteRight(t) ==
    /\ At(t, "wr_right")
    /\ placed(t, setPrevious(Engine, threads[t].recordHeader.next, threads[t].newOffset),
              threads[t])

\* the store as prepared; each thread holds its own cursor on the last record
InitMT ==
    /\ \E p \in Preparations :
          /\ file = Prepared(p).file
          /\ storageHeader = Prepared(p).sh
          /\ freeLookupDepth = Prepared(p).depth
          /\ last = [ReadCall EXCEPT !.before = Prepared(p)]
          /\ threads = [t \in MTThreads |->
                           [NoThread EXCEPT !.cursor = getLastRecord(Prepared(p)).cursor]]
    /\ recordLocks = EmptyMap
    /\ cursors = [c \in Cursors |-> NoCursor]
    /\ status = "run"
    /\ liveOrder = <<>>
    /\ calls = 0
    /\ headerMutex = {}
    /\ freeListMutex = {}
    /\ lockOwners = EmptyMap
    /\ stale = {}
    /\ probe = NoProbe
    /\ mode = ReadWrite
    /\ cache = NoCache
    /\ workers = EmptyMap

\* threads that create records and edit the record of their cursor
NextMT ==
    \/ NextCreate
    \/ \E t \in MTThreads, data \in Payloads : SetRecordDataMT(t, data)
    \/ \E t \in MTThreads : WriteLock(t)
    \/ \E t \in MTThreads : WriteNewLock(t)
    \/ \E t \in MTThreads : FreeRead(t)
    \/ \E t \in MTThreads : FreeHeader(t)
    \/ \E t \in MTThreads : FreeConnect(t)
    \/ \E t \in MTThreads : FreeMark(t)
    \/ \E t \in MTThreads : WriteLeft(t)
    \/ \E t \in MTThreads : WriteRight(t)
    \/ \E t \in MTThreads : Relock(t)

\* a thread that can take a step takes it in the end
SpecMT == InitMT /\ [][NextMT]_vars /\ \A t \in MTThreads : WF_vars(NextMT /\ threads'[t] # threads[t])

\* thread t has a call to make, or is in one and the lock it takes next is free
CanStep(t) ==
    IF threads[t].pc = "idle" THEN threads[t].made < MTCalls
    ELSE Free(HoldersOf(Wants(threads[t])), Wants(threads[t]).exclusive)

----------------------------------------------------------------------------
(* C14: concurrent calls of different threads through their own cursors    *)
(* all return: no call ends the run, and in no reachable state is a thread  *)
(* in a call while no thread can take a step                               *)
C14_AllCallsReturn ==
    /\ status = "run"
    /\ (\A t \in MTThreads : threads[t].pc = "idle") \/ (\E t \in MTThreads : CanStep(t))

\* a relocating writeRecordData holds the last record's lock and waits for
\* headerMutex; appendNewRecord holds headerMutex and waits for that record
C14_HeaderAgainstRecord ==
    \E t, u \in MTThreads :
        /\ threads[t].pc = "allocate"
        /\ threads[t].op = "setRecordData"
        /\ Me(t, TRUE) \in Holders(lockOwners, threads[t].offset)
        /\ threads[u].pc = "ap_last"
        /\ threads[u].lastRecordOffset = threads[t].offset
        /\ Me(u, TRUE) \in headerMutex

----------------------------------------------------------------------------
(* C18: the storage header's endOfData never decreases, whatever the calls *)
(* made and however the threads making them interleave                     *)
C18_EndOfDataGrows == [][storageHeader'.endOfData >= storageHeader.endOfData]_vars

\* endOfData lies below the end of a record in the file
C18_EndOfDataInsideFile ==
    \E o \in DOMAIN file :
        storageHeader.endOfData < o + RECORD_HEADER_SIZE + file[o].hdr.recordCapacity

----------------------------------------------------------------------------
(* One thread with two cursors *)

TwoCalls == 6        \* calls the thread makes

TwoCursors == {"c1", "c2"}

InitTwo ==
    /\ file = EmptyMap
    /\ storageHeader = createStorageHeader
    /\ freeLookupDepth = FREE_RECORD_LOOKUP_DEPTH
    /\ recordLocks = EmptyMap
    /\ cursors = [c \in TwoCursors |-> NoCursor]
    /\ status = "run"
    /\ last = ReadCall
    /\ liveOrder = <<>>
    /\ calls = 0
    /\ threads = EmptyMap
    /\ headerMutex = {}
    /\ freeListMutex = {}
    /\ lockOwners = EmptyMap
    /\ stale = {}
    /\ probe = NoProbe
    /\ mode = ReadWrite
    /\ cache = NoCache
    /\ workers = EmptyMap

\* a cursor is put on a record by createRecord or getRecord and stays there
NextTwo ==
    \/ \E c \in TwoCursors, data \in Payloads : calls < TwoCalls /\ CreateRecord(c, data)
    \/ \E c \in TwoCursors, offset \in DOMAIN file : calls < TwoCalls /\ GetRecord(c, offset)
    \/ \E c \in TwoCursors : calls < TwoCalls /\ RemoveRecord(c)
    \/ \E c \in TwoCursors : calls < TwoCalls /\ IsValid(c)
    \/ \E c \in TwoCursors : calls < TwoCalls /\ GetRecordData(c)
    \/ \E c \in TwoCursors, data \in Payloads : calls < TwoCalls /\ SetRecordData(c, data)

SpecTwo == InitTwo /\ [][NextTwo]_vars

\* C20: a cursor whose record has been removed or relocated through another
\* cursor is invalid from then on, also once createRecord has recycled the
\* slot: isValid() is false and getRecordData, setRecordData and
\* removeRecord through it fail
C20_StaleCursorStaysInvalid ==
    status = "run" =>
        \A c \in stale :
            /\ ~isValid(Engine, cursors[c]).ok
            /\ ~getRecordData(Engine, cursors[c]).ok
            /\ ~removeRecord(Engine, cursors[c]).ok
            /\ \A data \in Payloads : ~setRecordData(Engine, cursors[c], data, Len(data)).ok

\* the record of a cursor was removed through the other cursor, the slot
\* has been recycled, and the cursor reports itself valid
C20_ValidOnRecycledSlot ==
    /\ status = "run"
    /\ \E c \in stale :
          /\ isValid(Engine, cursors[c]).ok
          /\ cursors[c].pos \in Range(liveOrder)

\* ---------------------------------------------------------------------------
\* CachedFileIO: the page cache between the record store and the file.
\* A worker is a thread inside read() or write(); a step runs from one lock
\* acquisition (or one atomic operation on pageCounter) to the next. Every
\* lock the code takes is released inside the step that takes it, so a step
\* never waits.
\* ---------------------------------------------------------------------------

PAGE_SIZE == 2       \* bytes of one cache page (CachedFileIO.h has 8192)
MaxPages == 2        \* frames of the pool: maxPagesCount after setCacheSize
FileBytes == 6       \* positions the callers address: three pages
MaxRead == 3         \* longest range a caller reads
MaxWrite == 2        \* longest buffer a caller writes
CacheCalls == 3      \* calls the single worker makes

Zeros(n) == [i \in 1..n |-> 0]

\* std::filebuf::sgetn after pubseekpos(offset): the bytes the file has there.
sgetn(disk, offset, n) == IF offset >= Len(disk) THEN <<>> ELSE SubSeq(disk, offset + 1, Min(Len(disk), offset + n))

\* std::filebuf::sputn after pubseekpos(offset): a gap past the end reads as zeros.
sputn(disk, offset, bytes) == [i \in 1..Max(Len(disk), offset + Len(bytes)) |-> IF i > offset /\ i <= offset + Len(bytes) THEN bytes[i - offset] ELSE IF i <= Len(disk) THEN disk[i] ELSE 0]

NoPage == [filePageNo |-> NOT_FOUND, state |-> "CLEAN", availableDataLength |-> 0, data |-> Zeros(PAGE_SIZE)]

\* open(): the file as it is on disk, an empty pool of maxPagesCount frames.
\* plain is the same file without a cache, for comparison; origin is the
\* file as it was opened; used is the resident frames in the order of their
\* last lookup hit or load, the most recent first; evictedOldest says that
\* every frame evicted so far was the last of used.
opened(disk) ==
    [closed |-> FALSE, disk |-> disk, plain |-> disk, origin |-> disk,
     pool |-> [f \in 0..(MaxPages - 1) |-> NoPage],
     pageCounter |-> 0, maxPagesCount |-> MaxPages,
     cacheList |-> <<>>, cacheMap |-> EmptyMap, used |-> <<>>, evictedOldest |-> TRUE]

NoWorker == [pc |-> "idle", op |-> "none", position |-> 0, length |-> 0, data |-> <<>>, filePage |-> 0, pageInfo |-> NOT_FOUND, pageNo |-> 0, pageDataLength |-> 0, bytes |-> 0, buffer |-> <<>>, result |-> 0, made |-> 0, writes |-> <<>>, late |-> FALSE]

\* The bytes call number k of worker w writes: no two calls write the same byte.
Mark(w, k, n) == [i \in 1..n |-> 10 * w + k]

StoreVars == <<file, storageHeader, freeLookupDepth, recordLocks, cursors, last, liveOrder, calls, threads, headerMutex, freeListMutex, lockOwners, stale, probe, mode>>

Cached(w, cs, wk) ==
    /\ cache' = cs
    /\ workers' = [workers EXCEPT ![w] = wk]
    /\ UNCHANGED <<status, StoreVars>>

\* Undefined behaviour ends the run one way or another.
Undefined ==
    /\ status' \in Outcomes
    /\ UNCHANGED <<cache, workers, StoreVars>>

InCall(w, pc) ==
    /\ status = "run"
    /\ w \in DOMAIN workers
    /\ workers[w].pc = pc

firstPageNo(wk) == wk.position \div PAGE_SIZE

lastPageNo(wk) == (wk.position + wk.length) \div PAGE_SIZE

CacheRead(w, position, length) ==
    /\ InCall(w, "idle")
    /\ ~cache.closed
    /\ workers[w].made < CacheCalls
    /\ Cached(w, cache, [workers[w] EXCEPT !.pc = "search",
                            !.op = IF position % PAGE_SIZE = 0 /\ length = PAGE_SIZE THEN "readPage" ELSE "read",
                            !.position = position, !.length = length, !.data = <<>>,
                            !.filePage = position \div PAGE_SIZE, !.bytes = 0, !.buffer = <<>>])

CacheWrite(w, position, length) ==
    /\ InCall(w, "idle")
    /\ ~cache.closed
    /\ workers[w].made < CacheCalls
    /\ Cached(w, [cache EXCEPT !.plain = sputn(@, position, Mark(w, workers[w].made + 1, length))],
                 [workers[w] EXCEPT !.pc = "search", !.op = "write",
                            !.position = position, !.length = length,
                            !.data = Mark(w, workers[w].made + 1, length),
                            !.filePage = position \div PAGE_SIZE, !.bytes = 0, !.buffer = <<>>,
                            !.writes = Append(@, <<position, Mark(w, workers[w].made + 1, length)>>)])

Without(list, f) == LET i == CHOOSE i \in DOMAIN list : list[i] = f /\ \A j \in 1..(i - 1) : list[j] # f IN SubSeq(list, 1, i - 1) \o SubSeq(list, i + 1, Len(list))

found(wk, f) == [wk EXCEPT !.pageInfo = f, !.pc = IF wk.op = "write" THEN "calc" ELSE "copy"]

\* searchPageInCache under cacheMutex. A hit moves the frame to the front of
\* cacheList by its iterator, which dangles when the frame is not in the list.
SearchPageInCache(w) ==
    /\ InCall(w, "search")
    /\ IF workers[w].filePage \in DOMAIN cache.cacheMap
       THEN IF cache.cacheMap[workers[w].filePage] \in Range(cache.cacheList)
            THEN Cached(w, [cache EXCEPT !.cacheList = <<cache.cacheMap[workers[w].filePage]>> \o Without(@, cache.cacheMap[workers[w].filePage]),
                                         !.used = <<cache.cacheMap[workers[w].filePage]>> \o Without(@, cache.cacheMap[workers[w].filePage])],
                        found(workers[w], cache.cacheMap[workers[w].filePage]))
            ELSE Undefined
       ELSE Cached(w, cache, [workers[w] EXCEPT !.pc = "allocate"])

\* allocatePage: pageCounter.load() >= maxPagesCount
AllocatePageCheck(w) ==
    /\ InCall(w, "allocate")
    /\ Cached(w, cache, [workers[w] EXCEPT !.pc = IF cache.pageCounter >= cache.maxPagesCount THEN "evict" ELSE "allocate_load"])

\* allocatePage: pageNo = pageCounter.load()
AllocatePageLoad(w) ==
    /\ InCall(w, "allocate_load")
    /\ Cached(w, cache, [workers[w] EXCEPT !.pc = "allocate_add", !.pageNo = cache.pageCounter])

\* allocatePage: pageCounter.fetch_add(1), then the frame pageNo of the pool
\* is reset under its pageMutex; pageNo past the pool is an access out of bounds.
AllocatePageAdd(w) ==
    /\ InCall(w, "allocate_add")
    /\ IF workers[w].pageNo >= cache.maxPagesCount
       THEN /\ status' \in Outcomes
            /\ cache' = [cache EXCEPT !.pageCounter = @ + 1]
            /\ UNCHANGED <<workers, StoreVars>>
       ELSE Cached(w, [cache EXCEPT !.pageCounter = @ + 1,
                                    !.pool[workers[w].pageNo].filePageNo = NOT_FOUND,
                                    !.pool[workers[w].pageNo].state = "CLEAN",
                                    !.pool[workers[w].pageNo].availableDataLength = 0],
                      [workers[w] EXCEPT !.pc = "load", !.pageInfo = workers[w].pageNo])

Removed1(map, k) == [x \in DOMAIN map \ {k} |-> map[x]]

\* persistCachePage: the whole page goes to the file, whatever part of it is data.
persistCachePage(cs, f) == [cs EXCEPT !.disk = IF cs.pool[f].filePageNo = NOT_FOUND THEN @ ELSE sputn(@, cs.pool[f].filePageNo * PAGE_SIZE, cs.pool[f].data), !.pool[f].state = IF cs.pool[f].filePageNo = NOT_FOUND THEN @ ELSE "CLEAN"]

evicted(cs, f) == [cs EXCEPT !.pool[f].filePageNo = NOT_FOUND, !.pool[f].availableDataLength = 0]

popped(cs, f) == [cs EXCEPT !.cacheList = SubSeq(@, 1, Len(@) - 1), !.cacheMap = Removed1(@, cs.pool[f].filePageNo), !.used = Reverse(Without(Reverse(@), f)), !.evictedOldest = @ /\ cs.used[Len(cs.used)] = f]

\* getFreeCachePage with the pool used up: the oldest frame of cacheList is
\* taken out, persisted when dirty, and cleared, all under cacheMutex.
\* back() of an empty list is undefined.
EvictPage(w) ==
    /\ InCall(w, "evict")
    /\ IF cache.cacheList = <<>>
       THEN Undefined
       ELSE Cached(w, evicted(IF cache.pool[cache.cacheList[Len(cache.cacheList)]].state = "DIRTY"
                              THEN persistCachePage(popped(cache, cache.cacheList[Len(cache.cacheList)]), cache.cacheList[Len(cache.cacheList)])
                              ELSE popped(cache, cache.cacheList[Len(cache.cacheList)]),
                              cache.cacheList[Len(cache.cacheList)]),
                      [workers[w] EXCEPT !.pc = "load", !.pageInfo = cache.cacheList[Len(cache.cacheList)]])

\* loadPageToCache without the fetch from the file: the frame is entered as it
\* was cleared.
blank(cs, f, filePageNo) ==
    [cs EXCEPT !.pool[f] = [filePageNo |-> filePageNo, state |-> "CLEAN", availableDataLength |-> 0, data |-> Zeros(PAGE_SIZE)],
               !.cacheList = <<f>> \o @,
               !.used = <<f>> \o @,
               !.cacheMap = [x \in DOMAIN @ \cup {filePageNo} |-> IF x = filePageNo THEN f ELSE @[x]]]

loaded(cs, f, filePageNo) ==
    [cs EXCEPT !.pool[f] = [filePageNo |-> filePageNo, state |-> "CLEAN",
                            availableDataLength |-> Len(sgetn(cs.disk, filePageNo * PAGE_SIZE, PAGE_SIZE)),
                            data |-> sgetn(cs.disk, filePageNo * PAGE_SIZE, PAGE_SIZE) \o Zeros(PAGE_SIZE - Len(sgetn(cs.disk, filePageNo * PAGE_SIZE, PAGE_SIZE)))],
               !.cacheList = <<f>> \o @,
               !.used = <<f>> \o @,
               !.cacheMap = [x \in DOMAIN @ \cup {filePageNo} |-> IF x = filePageNo THEN f ELSE @[x]]]

\* loadPageToCache after getFreeCachePage: the frame is filled from the file
\* under its pageMutex and entered into cacheList and cacheMap under cacheMutex.
LoadPageToCache(w) ==
    /\ InCall(w, "load")
    /\ Cached(w, loaded(cache, workers[w].pageInfo, workers[w].filePage), found(workers[w], workers[w].pageInfo))

returned(wk, bytes, buffer) == [wk EXCEPT !.pc = "idle", !.made = @ + 1, !.bytes = bytes, !.buffer = buffer, !.result = bytes]

nextPage(wk, bytes, buffer) == IF wk.op = "readPage" \/ wk.filePage + 1 > lastPageNo(wk) THEN returned(wk, bytes, buffer) ELSE [wk EXCEPT !.pc = "search", !.filePage = @ + 1, !.bytes = bytes, !.buffer = buffer]

\* read(): the slice of the page filePage that goes to the caller's buffer.
readOffset(wk) == IF wk.op = "read" /\ wk.filePage = firstPageNo(wk) THEN (wk.position % PAGE_SIZE) ELSE 0

readBytesToCopy(wk, pageDataLength) ==
    IF wk.op = "readPage" THEN pageDataLength
    ELSE IF wk.filePage = firstPageNo(wk)
    THEN IF (wk.position % PAGE_SIZE) < pageDataLength
         THEN IF (wk.position % PAGE_SIZE) + wk.length > pageDataLength
              THEN pageDataLength - (wk.position % PAGE_SIZE)
              ELSE wk.length
         ELSE 0
    ELSE IF wk.filePage = lastPageNo(wk)
    THEN IF (wk.position + wk.length) % PAGE_SIZE < pageDataLength
         THEN (wk.position + wk.length) % PAGE_SIZE
         ELSE pageDataLength
    ELSE PAGE_SIZE

copied(wk, page) == SubSeq(page.data, readOffset(wk) + 1, readOffset(wk) + readBytesToCopy(wk, page.availableDataLength))

\* read() and readPage() under the shared pageMutex: memcpy to dst, dst += bytesToCopy.
ReadCopy(w) ==
    /\ InCall(w, "copy")
    /\ Cached(w, cache, nextPage(workers[w],
                                 workers[w].bytes + Len(copied(workers[w], cache.pool[workers[w].pageInfo])),
                                 workers[w].buffer \o copied(workers[w], cache.pool[workers[w].pageInfo])))

\* write() under the shared pageMutex: pageDataLength is read, dst and bytesToCopy follow from the call.
WriteCalc(w) ==
    /\ InCall(w, "calc")
    /\ Cached(w, cache, [workers[w] EXCEPT !.pc = "store", !.pageDataLength = cache.pool[workers[w].pageInfo].availableDataLength])

writeOffset(wk) == IF wk.filePage = firstPageNo(wk) THEN (wk.position % PAGE_SIZE) ELSE 0

writeBytesToCopy(wk) ==
    IF wk.filePage = firstPageNo(wk) THEN Min(wk.length, PAGE_SIZE - (wk.position % PAGE_SIZE))
    ELSE IF wk.filePage = lastPageNo(wk) THEN wk.length - wk.bytes
    ELSE PAGE_SIZE

stored(cs, wk) ==
    [cs EXCEPT !.pool[wk.pageInfo].data = [i \in 1..PAGE_SIZE |-> IF i > writeOffset(wk) /\ i <= writeOffset(wk) + writeBytesToCopy(wk) THEN wk.data[wk.bytes + i - writeOffset(wk)] ELSE @[i]],
               !.pool[wk.pageInfo].state = "DIRTY",
               !.pool[wk.pageInfo].availableDataLength = Max(wk.pageDataLength, writeOffset(wk) + writeBytesToCopy(wk))]

\* write() under the unique pageMutex: memcpy from src, the page is dirty.
WriteStore(w) ==
    /\ InCall(w, "store")
    /\ Cached(w, stored(cache, workers[w]), nextPage(workers[w], workers[w].bytes + writeBytesToCopy(workers[w]), <<>>))

RECURSIVE persistAll(_, _)
persistAll(cs, list) == IF list = <<>> THEN cs ELSE persistAll(persistCachePage(cs, Head(list)), Tail(list))

\* cacheList.sort by filePageNo, ascending; std::list::sort is stable.
RECURSIVE insertByPage(_, _, _)
insertByPage(cs, sorted, f) == IF sorted = <<>> THEN <<f>> ELSE IF cs.pool[f].filePageNo < cs.pool[Head(sorted)].filePageNo THEN <<f>> \o sorted ELSE <<Head(sorted)>> \o insertByPage(cs, Tail(sorted), f)

RECURSIVE sortByPage(_, _, _)
sortByPage(cs, list, sorted) == IF list = <<>> THEN sorted ELSE sortByPage(cs, Tail(list), insertByPage(cs, sorted, Head(list)))

\* flush(): cacheList is sorted by file page, and the condition of the if
\* assigns DIRTY, so every frame of cacheList is persisted.
flush(cs) == persistAll([cs EXCEPT !.cacheList = sortByPage(cs, @, <<>>)], sortByPage(cs, cs.cacheList, <<>>))

\* releasePool(): no frames, no capacity, nothing resident.
releasePool(cs) == [cs EXCEPT !.maxPagesCount = 0, !.pageCounter = 0, !.cacheList = <<>>, !.cacheMap = EmptyMap, !.pool = EmptyMap, !.used = <<>>]

\* close() once every call has returned: flush, the file is closed, the pool released.
CacheClose ==
    /\ status = "run"
    /\ ~cache.closed
    /\ DOMAIN workers # {}
    /\ \A w \in DOMAIN workers : workers[w].pc = "idle"
    /\ cache' = [releasePool(flush(cache)) EXCEPT !.closed = TRUE]
    /\ UNCHANGED <<workers, status, StoreVars>>

InitialFiles == {<<>>, <<7, 7, 7>>}

InitCache ==
    /\ file = EmptyMap
    /\ storageHeader = createStorageHeader
    /\ freeLookupDepth = FREE_RECORD_LOOKUP_DEPTH
    /\ recordLocks = EmptyMap
    /\ cursors = EmptyMap
    /\ status = "run"
    /\ last = ReadCall
    /\ liveOrder = <<>>
    /\ calls = 0
    /\ threads = EmptyMap
    /\ headerMutex = {}
    /\ freeListMutex = {}
    /\ lockOwners = EmptyMap
    /\ stale = {}
    /\ probe = NoProbe
    /\ mode = ReadWrite
    /\ \E disk \in InitialFiles : cache = opened(disk)
    /\ workers = [w \in {1} |-> NoWorker]

NextCache ==
    \/ \E position \in 0..(FileBytes - 1), length \in 1..MaxRead : CacheRead(1, position, length)
    \/ \E position \in 0..(FileBytes - 1), length \in 1..MaxWrite : CacheWrite(1, position, length)
    \/ SearchPageInCache(1)
    \/ AllocatePageCheck(1)
    \/ AllocatePageLoad(1)
    \/ AllocatePageAdd(1)
    \/ EvictPage(1)
    \/ LoadPageToCache(1)
    \/ ReadCopy(1)
    \/ WriteCalc(1)
    \/ WriteStore(1)
    \/ CacheClose

SpecCache == InitCache /\ [][NextCache]_vars

\* C16: single-threaded, a read that has returned gave the byte count and the
\* bytes, in dst order, that a plain file with the same writes applied gives
\* for the same range.
C16_ReadsMatchPlainFile ==
    status = "run" =>
        \A w \in DOMAIN workers :
            (workers[w].pc = "idle" /\ workers[w].op \in {"read", "readPage"}) =>
                /\ workers[w].result = Len(sgetn(cache.plain, workers[w].position, workers[w].length))
                /\ workers[w].buffer = sgetn(cache.plain, workers[w].position, workers[w].length)

\* A read across two pages has returned, and a byte of its buffer is not the
\* byte the plain file has at that position of the range.
C16_ShortFirstPage ==
    /\ status = "run"
    /\ \E w \in DOMAIN workers :
        /\ workers[w].pc = "idle"
        /\ workers[w].op = "read"
        /\ lastPageNo(workers[w]) > firstPageNo(workers[w])
        /\ workers[w].position + workers[w].length <= Len(cache.plain)
        /\ \E i \in DOMAIN workers[w].buffer : workers[w].buffer[i] # cache.plain[workers[w].position + i]

\* ---- CachedFileIO called from several threads ----

CacheWorkers == {1, 2}

CacheMTCalls == 1    \* calls each of the concurrent workers makes

InitCacheMT ==
    /\ file = EmptyMap
    /\ storageHeader = createStorageHeader
    /\ freeLookupDepth = FREE_RECORD_LOOKUP_DEPTH
    /\ recordLocks = EmptyMap
    /\ cursors = EmptyMap
    /\ status = "run"
    /\ last = ReadCall
    /\ liveOrder = <<>>
    /\ calls = 0
    /\ threads = EmptyMap
    /\ headerMutex = {}
    /\ freeListMutex = {}
    /\ lockOwners = EmptyMap
    /\ stale = {}
    /\ probe = NoProbe
    /\ mode = ReadWrite
    /\ \E disk \in InitialFiles : cache = opened(disk)
    /\ workers = [w \in CacheWorkers |-> NoWorker]

NextCacheMT ==
    \/ \E w \in CacheWorkers, position \in 0..(FileBytes - 1) : workers[w].made < CacheMTCalls /\ CacheRead(w, position, 1)
    \/ \E w \in CacheWorkers, position \in 0..(FileBytes - 1) : workers[w].made < CacheMTCalls /\ CacheWrite(w, position, 1)
    \/ \E w \in CacheWorkers : SearchPageInCache(w)
    \/ \E w \in CacheWorkers : AllocatePageCheck(w)
    \/ \E w \in CacheWorkers : AllocatePageLoad(w)
    \/ \E w \in CacheWorkers : AllocatePageAdd(w)
    \/ \E w \in CacheWorkers : EvictPage(w)
    \/ \E w \in CacheWorkers : LoadPageToCache(w)
    \/ \E w \in CacheWorkers : ReadCopy(w)
    \/ \E w \in CacheWorkers : WriteCalc(w)
    \/ \E w \in CacheWorkers : WriteStore(w)
    \/ CacheClose

SpecCacheMT == InitCacheMT /\ [][NextCacheMT]_vars

\* The file, read as zeros past its end: persistCachePage writes whole pages.
padded(disk) == [i \in 1..(FileBytes + 2 * PAGE_SIZE) |-> IF i <= Len(disk) THEN disk[i] ELSE 0]

\* The files the write calls a and b leave when they run one after another in
\* some order that keeps each thread's own order.
RECURSIVE serial(_, _, _)
serial(disk, a, b) ==
    IF a = <<>> /\ b = <<>> THEN {disk}
    ELSE (IF a = <<>> THEN {} ELSE serial(sputn(disk, a[1][1], a[1][2]), Tail(a), b))
         \cup (IF b = <<>> THEN {} ELSE serial(sputn(disk, b[1][1], b[1][2]), a, Tail(b)))

\* C15: after close the file is what some serial order of the threads' write
\* calls produces: no write is lost, none lands on another page.
C15_SerialAfterClose ==
    (status = "run" /\ cache.closed /\ DOMAIN workers = CacheWorkers) =>
        padded(cache.disk) \in {padded(d) : d \in serial(cache.origin, workers[1].writes, workers[2].writes)}

\* After close, the byte of a write call is in the file on a page other than
\* the page the call addressed.
C15_WriteOnAnotherPage ==
    /\ status = "run"
    /\ cache.closed
    /\ DOMAIN workers = CacheWorkers
    /\ cache.pageCounter <= cache.maxPagesCount
    /\ \E w \in CacheWorkers : \E i \in DOMAIN workers[w].writes : \E k \in DOMAIN cache.disk :
        /\ cache.disk[k] = workers[w].writes[i][2][1]
        /\ (k - 1) \div PAGE_SIZE # workers[w].writes[i][1] \div PAGE_SIZE

\* C17: the frames handed out of the pool never exceed maxPagesCount, and no
\* frame is with two threads loading a page into it.
C17_FramesWithinCapacity ==
    status = "run" =>
        /\ cache.closed \/ cache.pageCounter <= cache.maxPagesCount
        /\ \A v, w \in DOMAIN workers : (v # w /\ workers[v].pc = "load" /\ workers[w].pc = "load") => workers[v].pageInfo # workers[w].pageInfo

\* Two threads are about to load a page into the same frame of the pool.
C17_SameFrameTwoLoaders ==
    /\ status = "run"
    /\ \E v, w \in DOMAIN workers : v # w /\ workers[v].pc = "load" /\ workers[w].pc = "load" /\ workers[v].pageInfo = workers[w].pageInfo

\* ---------------------------------------------------------------------------
\* A bit of a record flipped in the file on disk, outside the engine.
\* file is what the engine has written through cachedFile; probe holds the
\* bytes of one live record as the file on disk has them.
\* ---------------------------------------------------------------------------

\* the stores the record is taken from: <<records created, records removed>>
FlipStores == {<<1, 0>>, <<3, 0>>, <<4, 3>>}

\* the RECORD_HEADER_SIZE bytes of a RecordHeader in the file
StoredHeader(h) == RecordHeaderBytes(h) \o ChecksumBytes(h.headChecksum)

flipBit(byte, k) == IF (byte \div (2 ^ k)) % 2 = 1 THEN byte - 2 ^ k ELSE byte + 2 ^ k

flipped(bytes, i, k) == [bytes EXCEPT ![i] = flipBit(@, k)]

Word(bytes, p) == [lo |-> bytes[p] + 256 * bytes[p + 1], hi |-> bytes[p + 2] + 256 * bytes[p + 3]]

\* readRecordHeader without its checksum test: RECORD_HEADER_SIZE bytes were read
headerIsRead(bytes) == Len(bytes) = RECORD_HEADER_SIZE

\* readRecordHeader on the bytes cachedFile.read delivered: the checksum of the
\* first RECORD_HEADER_PAYLOAD_SIZE bytes is the header's headChecksum
headerIsValid(bytes) ==
    /\ Len(bytes) = RECORD_HEADER_SIZE
    /\ checksum(bytes, RECORD_HEADER_PAYLOAD_SIZE) = Word(bytes, RECORD_HEADER_PAYLOAD_SIZE + 1)

\* getRecord on those bytes: no cursor for an invalid or a deleted header
recordIsReturned(bytes) == headerIsValid(bytes) /\ bytes[24] < 128

\* readRecordData on those bytes: the header, then dataLength bytes of payload
\* whose checksum is the header's dataChecksum
dataIsValid(bytes, data) ==
    /\ headerIsValid(bytes)
    /\ Word(bytes, 29).hi = 0
    /\ Word(bytes, 29).lo <= Len(data)
    /\ checksum(data, Word(bytes, 29).lo) = Word(bytes, 33)

LiveOffsets(st) == {o \in DOMAIN st.file : ~(RECORD_DELETED_FLAG \subseteq st.file[o].hdr.bitFlags)}

\* The record at offset as it is in the file after flush(); resident says
\* whether the cache still holds its pages.
onDisk(st, offset, resident) ==
    [stage |-> "stored", offset |-> offset, resident |-> resident, where |-> "none",
     header |-> StoredHeader(st.file[offset].hdr),
     data |-> SubSeq(st.file[offset].data, 1, st.file[offset].hdr.dataLength),
     got |-> "none"]

InitFlip ==
    /\ \E p \in FlipStores :
          /\ file = Prepared(p).file
          /\ storageHeader = Prepared(p).sh
          /\ freeLookupDepth = Prepared(p).depth
          /\ last = [ReadCall EXCEPT !.before = Prepared(p)]
          /\ \E o \in LiveOffsets(Prepared(p)), resident \in BOOLEAN : probe = onDisk(Prepared(p), o, resident)
    /\ mode = ReadWrite
    /\ recordLocks = EmptyMap
    /\ cursors = [c \in Cursors |-> NoCursor]
    /\ status = "run"
    /\ liveOrder = <<>>
    /\ calls = 0
    /\ threads = EmptyMap
    /\ headerMutex = {}
    /\ freeListMutex = {}
    /\ lockOwners = EmptyMap
    /\ stale = {}
    /\ cache = NoCache
    /\ workers = EmptyMap

Probed(pr) ==
    /\ probe' = pr
    /\ UNCHANGED <<file, storageHeader, freeLookupDepth, recordLocks, cursors, status, last, liveOrder, calls, threads, headerMutex, freeListMutex, lockOwners, stale, cache, workers, mode>>

FlipHeaderBit(i, k) ==
    /\ probe.stage = "stored"
    /\ Probed([probe EXCEPT !.stage = "flipped", !.where = "header", !.header = flipped(@, i, k)])

FlipPayloadBit(i, k) ==
    /\ probe.stage = "stored"
    /\ i \in DOMAIN probe.data
    /\ Probed([probe EXCEPT !.stage = "flipped", !.where = "payload", !.data = flipped(@, i, k)])

\* getRecord(offset): from the resident pages when the cache has them
\* (searchPageInCache does not go to the file on a hit), else from the file.
GetRecordAfterFlip ==
    /\ probe.stage \in {"stored", "flipped"}
    /\ probe.where # "payload"
    /\ Probed([probe EXCEPT !.stage = "read",
                            !.got = IF probe.resident
                                    THEN IF getRecord(Engine, probe.offset).cursor.null THEN "null" ELSE "valid"
                                    ELSE IF recordIsReturned(probe.header) THEN "valid" ELSE "null"])

\* getRecordData on a cursor of the record
GetRecordDataAfterFlip ==
    /\ probe.stage \in {"stored", "flipped"}
    /\ probe.where # "header"
    /\ Probed([probe EXCEPT !.stage = "read",
                            !.got = IF probe.resident
                                    THEN IF readRecordData(Engine, probe.offset).pos = NOT_FOUND THEN "null" ELSE "valid"
                                    ELSE IF dataIsValid(probe.header, probe.data) THEN "valid" ELSE "null"])

NextFlip ==
    \/ \E i \in 1..RECORD_HEADER_SIZE, k \in 0..7 : FlipHeaderBit(i, k)
    \/ \E i \in 1..MaxLen, k \in 0..7 : FlipPayloadBit(i, k)
    \/ GetRecordAfterFlip
    \/ GetRecordDataAfterFlip

SpecFlip == InitFlip /\ [][NextFlip]_vars

\* C19, as the spec has it: after a bit of the record's header or payload was
\* flipped in the file, the next getRecord gives no cursor and the next
\* getRecordData gives false.
C19_FlipIsDetected ==
    (probe.stage = "read" /\ probe.where # "none") => probe.got = "null"

\* C19 for a record the engine reads from the file: the same, when the cache
\* does not hold the record's pages, as after open.
C19_FlipIsDetectedWhenRead ==
    (probe.stage = "read" /\ probe.where # "none" /\ ~probe.resident) => probe.got = "null"

\* A bit of the payload was flipped, getRecordData read the record from the
\* file and returned false.
C19_FlippedRecordRead ==
    /\ probe.stage = "read"
    /\ probe.where = "payload"
    /\ ~probe.resident
    /\ probe.got = "null"

\* ---- CachedFileIO after close(), and flush() ----

ClosedCalls == 1     \* calls the worker makes before close()
FlushCalls == 2      \* calls the worker makes between flushes

\* read() on a closed file. The test for a whole page comes before isOpen():
\* a page-aligned read of PAGE_SIZE bytes goes on into readPage.
ReadAfterClose(w, position, length) ==
    /\ InCall(w, "idle")
    /\ cache.closed
    /\ ~workers[w].late
    /\ Cached(w, cache, IF position % PAGE_SIZE = 0 /\ length = PAGE_SIZE
                         THEN [workers[w] EXCEPT !.pc = "search", !.op = "readPage", !.late = TRUE,
                                  !.position = position, !.length = length, !.data = <<>>,
                                  !.filePage = position \div PAGE_SIZE, !.bytes = 0, !.buffer = <<>>]
                         ELSE [workers[w] EXCEPT !.op = "read", !.late = TRUE, !.made = @ + 1,
                                  !.position = position, !.length = length, !.data = <<>>,
                                  !.bytes = 0, !.buffer = <<>>, !.result = 0])

\* write() on a closed file: !isOpen(), 0 is returned.
WriteAfterClose(w, position, length) ==
    /\ InCall(w, "idle")
    /\ cache.closed
    /\ ~workers[w].late
    /\ Cached(w, cache, [workers[w] EXCEPT !.op = "write", !.late = TRUE, !.made = @ + 1,
                            !.position = position, !.length = length,
                            !.data = Mark(w, workers[w].made + 1, length),
                            !.bytes = 0, !.buffer = <<>>, !.result = 0])

NextClosed ==
    \/ \E position \in 0..(FileBytes - 1), length \in 1..MaxRead : workers[1].made < ClosedCalls /\ CacheRead(1, position, length)
    \/ \E position \in 0..(FileBytes - 1), length \in 1..MaxWrite : workers[1].made < ClosedCalls /\ CacheWrite(1, position, length)
    \/ SearchPageInCache(1)
    \/ AllocatePageCheck(1)
    \/ AllocatePageLoad(1)
    \/ AllocatePageAdd(1)
    \/ EvictPage(1)
    \/ LoadPageToCache(1)
    \/ ReadCopy(1)
    \/ WriteCalc(1)
    \/ WriteStore(1)
    \/ CacheClose
    \/ \E position \in 0..(FileBytes - 1), length \in 1..MaxRead : ReadAfterClose(1, position, length)
    \/ \E position \in 0..(FileBytes - 1), length \in 1..MaxWrite : WriteAfterClose(1, position, length)

SpecClosed == InitCache /\ [][NextClosed]_vars

\* C23: a read or write called after close() has returned returns 0 at once,
\* without going into the cache, whatever its offset and length.
C23_NoIOAfterClose ==
    \A w \in DOMAIN workers :
        workers[w].late => (status = "run" /\ workers[w].pc = "idle" /\ workers[w].result = 0)

\* A page-aligned read of PAGE_SIZE bytes after close() went into the released
\* cache and took back() of the empty cacheList.
C23_AlignedReadAfterClose ==
    /\ status # "run"
    /\ \E w \in DOMAIN workers : workers[w].late /\ workers[w].op = "readPage" /\ workers[w].pc = "evict"

\* flush() between calls
CacheFlush ==
    /\ status = "run"
    /\ ~cache.closed
    /\ DOMAIN workers # {}
    /\ \A w \in DOMAIN workers : workers[w].pc = "idle"
    /\ cache' = flush(cache)
    /\ UNCHANGED <<workers, status, StoreVars>>

NextFlush ==
    \/ \E position \in 0..(FileBytes - 1), length \in 1..MaxRead : workers[1].made < FlushCalls /\ CacheRead(1, position, length)
    \/ \E position \in 0..(FileBytes - 1), length \in 1..MaxWrite : workers[1].made < FlushCalls /\ CacheWrite(1, position, length)
    \/ SearchPageInCache(1)
    \/ AllocatePageCheck(1)
    \/ AllocatePageLoad(1)
    \/ AllocatePageAdd(1)
    \/ EvictPage(1)
    \/ LoadPageToCache(1)
    \/ ReadCopy(1)
    \/ WriteCalc(1)
    \/ WriteStore(1)
    \/ CacheFlush

SpecFlush == InitCache /\ [][NextFlush]_vars

\* getFileSize(): the length of the file
getFileSize(cs) == Len(cs.disk)

\* every call so far was a write, the first at offset 0, each next one where the one before ended
Contiguous(wk) ==
    /\ wk.pc = "idle"
    /\ wk.writes # <<>>
    /\ wk.made = Len(wk.writes)
    /\ wk.writes[1][1] = 0
    /\ \A i \in 1..(Len(wk.writes) - 1) : wk.writes[i + 1][1] = wk.writes[i][1] + Len(wk.writes[i][2])

\* flush() has run since the last write: no resident page is dirty
Flushed(cs) == \A i \in DOMAIN cs.cacheList : cs.pool[cs.cacheList[i]].state = "CLEAN"

\* C24: n bytes written contiguously from offset 0 to a fresh file, then
\* flush: getFileSize() is n rounded up to whole pages.
C24_FileSizeAfterFlush ==
    (status = "run" /\ ~cache.closed /\ cache.origin = <<>> /\ DOMAIN workers = {1} /\ Contiguous(workers[1]) /\ Flushed(cache)) =>
        getFileSize(cache) = ((Len(cache.plain) + PAGE_SIZE - 1) \div PAGE_SIZE) * PAGE_SIZE

\* A whole number of pages was written and flushed, and the file is one page longer.
C24_PageBeyondLastByte ==
    /\ status = "run"
    /\ cache.origin = <<>>
    /\ DOMAIN workers = {1}
    /\ Contiguous(workers[1])
    /\ Flushed(cache)
    /\ Len(cache.plain) % PAGE_SIZE = 0
    /\ getFileSize(cache) = Len(cache.plain) + PAGE_SIZE

\* C30: flush writes back the dirty pages only, so with no write call made
\* the file keeps its size and contents through reads and flushes, and after
\* a flush no resident page is dirty.
C30_FlushWritesDirtyOnly ==
    (status = "run" /\ ~cache.closed /\ DOMAIN workers = {1} /\ workers[1].writes = <<>>) =>
        /\ cache.disk = cache.origin
        /\ Flushed(cache)

\* Only reads were made, and flush has made the file longer.
C30_CleanPageWritten ==
    /\ status = "run"
    /\ DOMAIN workers = {1}
    /\ workers[1].writes = <<>>
    /\ workers[1].made > 0
    /\ Len(cache.disk) > Len(cache.origin)

----------------------------------------------------------------------------
(* The store opened read-only, and the store after close(): one thread makes
   its calls on a store that was filled before; the store may have been opened
   read-only, and close() may come between any two calls. *)

ModeCalls == 3       \* calls the thread makes on the store
ModeStores == {<<0, 0>>, <<2, 0>>, <<3, 1>>}

InitMode ==
    /\ \E p \in ModeStores :
          /\ file = Prepared(p).file
          /\ storageHeader = Prepared(p).sh
          /\ freeLookupDepth = Prepared(p).depth
          /\ last = [ReadCall EXCEPT !.before = Prepared(p)]
    /\ mode \in {ReadWrite, ReadOnly}
    /\ recordLocks = EmptyMap
    /\ cursors = [c \in Cursors |-> NoCursor]
    /\ status = "run"
    /\ liveOrder = <<>>
    /\ calls = 0
    /\ threads = EmptyMap
    /\ headerMutex = {}
    /\ freeListMutex = {}
    /\ lockOwners = EmptyMap
    /\ stale = {}
    /\ probe = NoProbe
    /\ cache = NoCache
    /\ workers = EmptyMap

\* RecordFileIO::close: cachedFile.close() flushes (unless read-only), closes
\* the file handler and releases the pool; readOnly keeps its value
CloseStore ==
    /\ status = "run"
    /\ isOpen(Engine)
    /\ mode' = [mode EXCEPT !.open = FALSE]
    /\ last' = ReadCall
    /\ UNCHANGED <<file, storageHeader, freeLookupDepth, recordLocks, cursors, status, liveOrder, calls, threads, headerMutex, freeListMutex, lockOwners, stale, cache, workers, probe>>

\* CachedFileIO::write(position, dataBuffer, length): the bytes written
written(st, length) == IF ~canWrite(st) \/ length = 0 THEN 0 ELSE length

\* cachedFile.write on the payload area of a record, the cached file
\* read-only or closed
CachedWrite(offset, data) ==
    /\ status = "run"
    /\ mode # ReadWrite
    /\ Commit(cachedWriteData(Engine, offset, data, written(Engine, Len(data))))
    /\ last' = [ReadCall EXCEPT !.op = "write", !.ok = written(Engine, Len(data)) # 0,
                                !.pos = written(Engine, Len(data)), !.data = data,
                                !.before = Engine]
    /\ UNCHANGED <<cursors, liveOrder, stale>>

NextMode ==
    \/ calls < ModeCalls /\ \E c \in Cursors, data \in Payloads : CreateRecord(c, data)
    \/ calls < ModeCalls /\ \E c \in Cursors, offset \in DOMAIN file : GetRecord(c, offset)
    \/ calls < ModeCalls /\ \E c \in Cursors : GetFirstRecord(c)
    \/ calls < ModeCalls /\ \E c \in Cursors : RemoveRecord(c)
    \/ calls < ModeCalls /\ \E c \in Cursors : CursorNext(c)
    \/ calls < ModeCalls /\ \E c \in Cursors : GetRecordData(c)
    \/ calls < ModeCalls /\ \E c \in Cursors, data \in Payloads : SetRecordData(c, data)
    \/ calls < ModeCalls /\ \E offset \in DOMAIN file, data \in Payloads : CachedWrite(offset, data)
    \/ CloseStore

SpecMode == InitMode /\ [][NextMode]_vars

\* the calls that change the store
Mutators == {"createRecord", "removeRecord", "setRecordData", "write"}

\* C21: a createRecord whose cache writes fail (the store is read-only or has
\* been closed) returns null and leaves every field of the storage header as
\* it was
C21_FailedCreateChangesNothing ==
    (status = "run" /\ last.op = "createRecord" /\ ~canWrite(last.before))
        => (~last.ok /\ storageHeader = last.before.sh)

\* C21 case: createRecord on a closed store returned a cursor and counted a
\* record that is in no file
C21_CreateAfterClose ==
    /\ status = "run"
    /\ last.op = "createRecord"
    /\ ~isOpen(last.before)
    /\ last.ok
    /\ storageHeader.totalRecords = last.before.sh.totalRecords + 1
    /\ file = last.before.file

\* C22: on a store opened read-only createRecord returns null, removeRecord
\* and setRecordData return false, the cache's write returns 0, and the
\* storage header, the record headers and the payloads stay as they were
C22_ReadOnlyChangesNothing ==
    (status = "run" /\ last.op \in Mutators /\ last.before.mode = ReadOnly)
        => /\ ~last.ok
           /\ last.op = "write" => last.pos = 0
           /\ last.op = "createRecord" => cursors[last.c].null
           /\ storageHeader = last.before.sh
           /\ file = last.before.file

\* C22 case: removeRecord was refused on a live record the cursor is on
C22_RemoveRefused ==
    /\ status = "run"
    /\ last.op = "removeRecord"
    /\ last.before.mode = ReadOnly
    /\ last.from \in LiveOffsets(Engine)
    /\ ~cursors[last.c].null

----------------------------------------------------------------------------
(* C25: the order in which a thread takes the engine's locks *)

\* the record offsets whose lock thread t holds
HeldRecords(t) == {o \in DOMAIN lockOwners : Owns(Holders(lockOwners, o), t)}

\* C25: a thread that is about to take a record lock does not hold
\* headerMutex, and every record lock it holds is at a lower offset
C25_LockOrder ==
    \A t \in DOMAIN threads :
        Wants(threads[t]).lock = "record" =>
            /\ ~Owns(headerMutex, t)
            /\ \A o \in HeldRecords(t) : o < Wants(threads[t]).offset

\* C25 case: appendNewRecord holds headerMutex exclusively and goes on to
\* lockRecord(freeRecordOffset, true)
C25_RecordLockUnderHeaderLock ==
    \E t \in DOMAIN threads :
        /\ status = "run"
        /\ threads[t].pc = "ap_store"
        /\ Me(t, TRUE) \in headerMutex
        /\ HeldRecords(t) = {}

----------------------------------------------------------------------------
(* C27: the free list when a record is put on it while another thread takes
   one off it *)

AllIdle == \A t \in MTThreads : threads[t].pc = "idle"

\* the records that were freed since the threads started
FreedSince(before) ==
    {o \in DOMAIN before.file : isDeleted(Engine, o) /\ ~isDeleted(before, o)}

\* C27: when the calls have returned, totalFreeRecords is the length of the
\* chain from firstFreeRecord, and every record marked deleted is on it
C27_FreeListConsistent ==
    (status = "run" /\ AllIdle) =>
        /\ storageHeader.totalFreeRecords = Len(freeChain(Engine))
        /\ \A o \in DOMAIN file : isDeleted(Engine, o) => o \in Range(freeChain(Engine))

\* C27 case: a createRecord was given a record of the free list, a relocating
\* setRecordData freed the record it moved, and that record is on no list
C27_FreedRecordDropped ==
    /\ status = "run"
    /\ AllIdle
    /\ \E t \in MTThreads : \E i \in DOMAIN threads[t].returned :
          threads[t].returned[i] \in Range(freeChain(last.before))
    /\ \E o \in FreedSince(last.before) : o \notin Range(freeChain(Engine))

----------------------------------------------------------------------------
(* removeRecord by threads that hold a cursor each on the same record *)

RemoveCalls == 1     \* removeRecord calls each thread makes
SameRecordStores == {<<1, 0>>, <<2, 0>>, <<3, 0>>, <<4, 1>>}

\* removeRecord, to lockRecord(currentPosition, false); returned keeps the
\* results of the thread's calls
RemoveRecordMT(t) ==
    /\ At(t, "idle")
    /\ threads[t].made < RemoveCalls
    /\ ~threads[t].cursor.null
    /\ MT(t, Engine,
          [threads[t] EXCEPT !.pc = "del_read", !.op = "removeRecord",
                             !.offset = threads[t].cursor.pos],
          headerMutex, freeListMutex, lockOwners)

\* removeRecord: the header is read into the cursor under the shared record
\* lock; false for a record that is not live, else on to the siblings
removeRead(th, rd) ==
    IF rd.pos = NOT_FOUND \/ RECORD_DELETED_FLAG \subseteq rd.header.bitFlags
    THEN finishedCall(th, [th.cursor EXCEPT !.hdr = rd.header], Append(th.returned, FALSE))
    ELSE [th EXCEPT !.cursor.hdr = rd.header, !.recordHeader = rd.header,
                    !.pc = IF rd.header.previous # NOT_FOUND THEN "del_left"
                           ELSE IF rd.header.next # NOT_FOUND THEN "del_right"
                           ELSE "fr_read"]

RemoveRead(t) ==
    /\ At(t, "del_read")
    /\ MT(t, Engine,
          removeRead(threads[t], readRecordHeader(Engine, threads[t].offset, threads[t].cursor.hdr)),
          headerMutex, freeListMutex, lockOwners)

\* removeRecord: the left sibling is locked; with a right sibling its lock is
\* taken next, without one the left sibling becomes the last record
RemoveLeft(t) ==
    /\ At(t, "del_left")
    /\ IF threads[t].recordHeader.next # NOT_FOUND
       THEN MT(t, Engine, [threads[t] EXCEPT !.pc = "del_both"],
               headerMutex, freeListMutex,
               LockAt(lockOwners, threads[t].recordHeader.previous, Me(t, TRUE)))
       ELSE MT(t, setNext(Engine, threads[t].recordHeader.previous, NOT_FOUND),
               [threads[t] EXCEPT
                   !.pc = "fr_read",
                   !.result = withHeadChecksum(
                       [siblingHeader(Engine, threads[t].recordHeader.previous)
                           EXCEPT !.next = NOT_FOUND])],
               headerMutex, freeListMutex, lockOwners)

\* removeRecord in the middle: the right sibling is locked too, the siblings
\* are connected and both locks released
RemoveBoth(t) ==
    /\ At(t, "del_both")
    /\ MT(t, connectSiblings(Engine, threads[t].recordHeader.previous, threads[t].recordHeader.next),
          [threads[t] EXCEPT
              !.pc = "fr_read",
              !.result = withHeadChecksum(
                  [siblingHeader(Engine, threads[t].recordHeader.next)
                      EXCEPT !.previous = threads[t].recordHeader.previous])],
          headerMutex, freeListMutex,
          UnlockAt(lockOwners, threads[t].recordHeader.previous, Me(t, TRUE)))

\* removeRecord of the first record: the right sibling becomes the first
RemoveRight(t) ==
    /\ At(t, "del_right")
    /\ MT(t, setPrevious(Engine, threads[t].recordHeader.next, NOT_FOUND),
          [threads[t] EXCEPT
              !.pc = "fr_read",
              !.result = withHeadChecksum(
                  [siblingHeader(Engine, threads[t].recordHeader.next)
                      EXCEPT !.previous = NOT_FOUND])],
          headerMutex, freeListMutex, lockOwners)

\* removeRecord: storageHeader after addRecordToFreeList, by the siblings the
\* record had (totalRecords-- is unsigned: below 0 stands for the wrapped value)
removedHeader(sh, recordHeader) ==
    IF recordHeader.previous # NOT_FOUND /\ recordHeader.next # NOT_FOUND
    THEN [sh EXCEPT !.totalRecords = @ - 1]
    ELSE IF recordHeader.previous # NOT_FOUND
    THEN [sh EXCEPT !.lastRecord = recordHeader.previous, !.totalRecords = @ - 1]
    ELSE IF recordHeader.next # NOT_FOUND
    THEN [sh EXCEPT !.firstRecord = recordHeader.next, !.totalRecords = @ - 1]
    ELSE [sh EXCEPT !.firstRecord = NOT_FOUND, !.lastRecord = NOT_FOUND,
                    !.totalRecords = @ - 1]

\* removeRecord: the cursor goes to the right sibling, else to the left one,
\* else it is invalidated
removedCursor(th) ==
    IF th.recordHeader.next # NOT_FOUND THEN Cursor(th.result, th.recordHeader.next)
    ELSE IF th.recordHeader.previous # NOT_FOUND
    THEN Cursor(th.result, th.recordHeader.previous)
    ELSE [pos |-> NOT_FOUND, null |-> FALSE,
          hdr |-> [th.recordHeader EXCEPT !.next = NOT_FOUND, !.previous = NOT_FOUND,
                                          !.dataLength = 0,
                                          !.dataChecksum = ZeroChecksum,
                                          !.headChecksum = ZeroChecksum]]

\* removeRecord: the storage header under the exclusive lock, the cursor is
\* moved and the call returns true
RemoveHeader(t) ==
    /\ At(t, "del_header")
    /\ MT(t, writeStorageHeader(setStorageHeader(Engine,
                 removedHeader(storageHeader, threads[t].recordHeader))),
          finishedCall(threads[t], removedCursor(threads[t]),
                       Append(threads[t].returned, TRUE)),
          headerMutex, freeListMutex, lockOwners)

\* the store as prepared; every thread has its own cursor on the same live
\* record, whose offset last.from keeps
InitSameRecord ==
    /\ \E p \in SameRecordStores : \E o \in LiveOffsets(Prepared(p)) :
          /\ file = Prepared(p).file
          /\ storageHeader = Prepared(p).sh
          /\ freeLookupDepth = Prepared(p).depth
          /\ last = [ReadCall EXCEPT !.before = Prepared(p), !.from = o]
          /\ threads = [t \in MTThreads |->
                           [NoThread EXCEPT !.cursor = getRecord(Prepared(p), o).cursor]]
    /\ recordLocks = EmptyMap
    /\ cursors = [c \in Cursors |-> NoCursor]
    /\ status = "run"
    /\ liveOrder = <<>>
    /\ calls = 0
    /\ headerMutex = {}
    /\ freeListMutex = {}
    /\ lockOwners = EmptyMap
    /\ stale = {}
    /\ probe = NoProbe
    /\ mode = ReadWrite
    /\ cache = NoCache
    /\ workers = EmptyMap

NextRemove ==
    \/ \E t \in MTThreads : RemoveRecordMT(t)
    \/ \E t \in MTThreads : RemoveRead(t)
    \/ \E t \in MTThreads : RemoveLeft(t)
    \/ \E t \in MTThreads : RemoveBoth(t)
    \/ \E t \in MTThreads : RemoveRight(t)
    \/ \E t \in MTThreads : FreeRead(t)
    \/ \E t \in MTThreads : FreeHeader(t)
    \/ \E t \in MTThreads : FreeConnect(t)
    \/ \E t \in MTThreads : FreeMark(t)
    \/ \E t \in MTThreads : RemoveHeader(t)

SpecRemove == InitSameRecord /\ [][NextRemove]_vars

\* every thread has made its removeRecord calls
AllRemoved == \A t \in MTThreads : threads[t].pc = "idle" /\ threads[t].made = RemoveCalls

\* how often offset is on the free list
TimesFree(st, offset) == Cardinality({i \in DOMAIN freeChain(st) : freeChain(st)[i] = offset})

\* C26: when two cursors on the same live record have both called
\* removeRecord, exactly one call returned true, totalRecords is one less,
\* totalFreeRecords one more, and the record is on the free list once
C26_OneRemoveWins ==
    (status = "run" /\ AllRemoved) =>
        /\ Cardinality({t \in MTThreads : threads[t].returned = <<TRUE>>}) = 1
        /\ storageHeader.totalRecords = last.before.sh.totalRecords - 1
        /\ storageHeader.totalFreeRecords = last.before.sh.totalFreeRecords + 1
        /\ TimesFree(Engine, last.from) = 1

\* C26 case: both calls returned true and the record was counted out twice
C26_RemovedTwice ==
    /\ status = "run"
    /\ AllRemoved
    /\ \A t \in MTThreads : threads[t].returned = <<TRUE>>
    /\ storageHeader.totalRecords = last.before.sh.totalRecords - 2
    /\ storageHeader.totalFreeRecords = last.before.sh.totalFreeRecords + 2
    /\ last.before.sh.totalRecords >= 2

----------------------------------------------------------------------------
(* getRecordData and setRecordData in place by threads that hold a cursor
   each on the same record.  Between taking the record lock and releasing it
   every call of the cache is a step of its own, so that the steps of one
   thread can fall between those of another wherever the lock lets them. *)

InPlaceCalls == 1    \* setRecordData calls the editing thread makes
GetCalls == 2        \* getRecordData calls a reading thread makes
ByteValues == 2      \* the values a payload byte takes

\* the payloads that fit a record of the given capacity
Fitting(capacity) ==
    UNION {[1..n -> 1..ByteValues] : n \in 1..(IF capacity < MaxLen THEN capacity ELSE MaxLen)}

\* what a call returned: getRecordData the buffer, setRecordData what it was given
Got(op, ok, data) == [op |-> op, ok |-> ok, data |-> data]

\* RecordCursor::setRecordData, to lockRecord(offset, true) in writeRecordData
SetInPlaceMT(t, data) ==
    /\ At(t, "idle")
    /\ threads[t].made < InPlaceCalls
    /\ ~threads[t].cursor.null
    /\ MT(t, Engine,
          [threads[t] EXCEPT !.pc = "ip_lock", !.op = "setRecordData", !.data = data,
                             !.offset = threads[t].cursor.pos],
          headerMutex, freeListMutex, lockOwners)

\* writeRecordData: the record is locked exclusively and its header read; a
\* record that is not live is unlocked again and NOT_FOUND returned
inPlaceLocked(t, th, rd) ==
    IF rd.pos = NOT_FOUND \/ RECORD_DELETED_FLAG \subseteq rd.header.bitFlags
    THEN MT(t, Engine,
            finishedCall(th, th.cursor, Append(th.returned, Got("setRecordData", FALSE, th.data))),
            headerMutex, freeListMutex, lockOwners)
    ELSE MT(t, Engine,
            [th EXCEPT !.pc = "ip_header",
                       !.recordHeader = withHeadChecksum([rd.header EXCEPT
                           !.dataLength = Len(th.data),
                           !.dataChecksum = checksum(th.data, Len(th.data))])],
            headerMutex, freeListMutex, LockAt(lockOwners, th.offset, Me(t, TRUE)))

InPlaceLock(t) ==
    /\ At(t, "ip_lock")
    /\ inPlaceLocked(t, threads[t], readRecordHeader(Engine, threads[t].offset, UninitHeader))

\* writeRecordData in place: cachedFile.write of the header
InPlaceHeader(t) ==
    /\ At(t, "ip_header")
    /\ MT(t, cachedWriteHeader(Engine, threads[t].offset, threads[t].recordHeader),
          [threads[t] EXCEPT !.pc = "ip_data"],
          headerMutex, freeListMutex, lockOwners)

\* writeRecordData in place: cachedFile.write of the payload, the record is
\* unlocked and its offset returned
InPlaceData(t) ==
    /\ At(t, "ip_data")
    /\ MT(t, cachedWriteData(Engine, threads[t].offset, threads[t].data, Len(threads[t].data)),
          finishedCall(threads[t], threads[t].cursor,
                       Append(threads[t].returned, Got("setRecordData", TRUE, threads[t].data))),
          headerMutex, freeListMutex,
          UnlockAt(lockOwners, threads[t].offset, Me(t, TRUE)))

\* RecordCursor::getRecordData, to lockRecord(offset, false) in readRecordData
GetRecordDataMT(t) ==
    /\ At(t, "idle")
    /\ threads[t].made < GetCalls
    /\ ~threads[t].cursor.null
    /\ MT(t, Engine,
          [threads[t] EXCEPT !.pc = "rd_lock", !.op = "getRecordData",
                             !.offset = threads[t].cursor.pos],
          headerMutex, freeListMutex, lockOwners)

\* readRecordData: the record is locked shared and its header read; after a
\* failed read it is unlocked again and NOT_FOUND returned
readLocked(t, th, rd) ==
    IF rd.pos = NOT_FOUND
    THEN MT(t, Engine,
            finishedCall(th, th.cursor, Append(th.returned, Got("getRecordData", FALSE, <<>>))),
            headerMutex, freeListMutex, lockOwners)
    ELSE MT(t, Engine, [th EXCEPT !.pc = "rd_data", !.recordHeader = rd.header],
            headerMutex, freeListMutex, LockAt(lockOwners, th.offset, Me(t, FALSE)))

ReadLock(t) ==
    /\ At(t, "rd_lock")
    /\ readLocked(t, threads[t], readRecordHeader(Engine, threads[t].offset, UninitHeader))

\* readRecordData: cachedFile.read of dataLength payload bytes, the record is
\* unlocked, and the bytes are checked against the header's dataChecksum
readData(th, data) ==
    finishedCall(th, th.cursor,
        Append(th.returned,
               Got("getRecordData",
                   checksum(data, th.recordHeader.dataLength) = th.recordHeader.dataChecksum,
                   data)))

ReadData(t) ==
    /\ At(t, "rd_data")
    /\ MT(t, Engine,
          readData(threads[t],
                   SubSeq(file[threads[t].offset].data, 1, threads[t].recordHeader.dataLength)),
          headerMutex, freeListMutex,
          UnlockAt(lockOwners, threads[t].offset, Me(t, FALSE)))

\* one thread edits the record, the others read it
Writers == {"t1"}
Readers == MTThreads \ Writers

NextReadWrite ==
    \/ \E t \in Writers : \E data \in Fitting(file[threads[t].cursor.pos].hdr.recordCapacity) : SetInPlaceMT(t, data)
    \/ \E t \in Writers : InPlaceLock(t)
    \/ \E t \in Writers : InPlaceHeader(t)
    \/ \E t \in Writers : InPlaceData(t)
    \/ \E t \in Readers : GetRecordDataMT(t)
    \/ \E t \in Readers : ReadLock(t)
    \/ \E t \in Readers : ReadData(t)

SpecReadWrite == InitSameRecord /\ [][NextReadWrite]_vars

\* the payload the record had before the threads started
OldData == readRecordData(last.before, last.from).data

\* the payloads setRecordData has been called with so far
NewData ==
    {threads[t].data : t \in {u \in MTThreads : threads[u].op = "setRecordData"}}
        \cup UNION {{threads[t].returned[i].data : i \in 1..Len(threads[t].returned)} : t \in MTThreads}

----------------------------------------------------------------------------
(* The record lock table: threads call lockRecord(offset, exclusive) and then
   unlockRecord(offset, exclusive).  Here recordLocks is the map itself, from
   an offset to a RecordLock object, lockOwners holds the RecordLock objects
   (counter, and the holders of mutex), and a step is one section under
   recordLocksMutex or one call on RecordLock::mutex. *)

LockCalls == 2       \* lockRecord / unlockRecord pairs each thread makes

LockOffsets == {STORAGE_HEADER_SIZE, STORAGE_HEADER_SIZE + RECORD_HEADER_SIZE}

\* a thread outside lockRecord and unlockRecord; recordLock is the local
\* std::shared_ptr<RecordLock> (0: empty), kept while the mutex is held
NoLocker == [pc |-> "idle", offset |-> NOT_FOUND, exclusive |-> FALSE, recordLock |-> 0, made |-> 0]

NewRecordLock == [counter |-> 0, holders |-> {}]

LockVars == <<file, storageHeader, freeLookupDepth, cursors, status, last, liveOrder, calls, headerMutex, freeListMutex, stale, cache, workers, probe, mode>>

\* a RecordLock lives as long as the map or a thread's shared_ptr refers to it
Referenced(map, ths) ==
    {map[o] : o \in DOMAIN map} \cup {ths[t].recordLock : t \in DOMAIN ths}

LockTable(map, objects, ths) ==
    /\ recordLocks' = map
    /\ threads' = ths
    /\ lockOwners' = [id \in DOMAIN objects \cap Referenced(map, ths) |-> objects[id]]
    /\ UNCHANGED LockVars

InitLocks ==
    /\ file = EmptyMap
    /\ storageHeader = createStorageHeader
    /\ freeLookupDepth = FREE_RECORD_LOOKUP_DEPTH
    /\ recordLocks = EmptyMap
    /\ cursors = [c \in Cursors |-> NoCursor]
    /\ status = "run"
    /\ last = ReadCall
    /\ liveOrder = <<>>
    /\ calls = 0
    /\ threads = [t \in MTThreads |-> NoLocker]
    /\ headerMutex = {}
    /\ freeListMutex = {}
    /\ lockOwners = EmptyMap
    /\ stale = {}
    /\ probe = NoProbe
    /\ mode = ReadWrite
    /\ cache = NoCache
    /\ workers = EmptyMap

\* lockRecord, the section under the shared recordLocksMutex: an entry that
\* is found is counted
LockFind(t, offset, exclusive) ==
    /\ status = "run"
    /\ threads[t].pc = "idle"
    /\ threads[t].made < LockCalls
    /\ IF offset \in DOMAIN recordLocks
       THEN LockTable(recordLocks,
                [lockOwners EXCEPT ![recordLocks[offset]].counter = @ + 1],
                [threads EXCEPT ![t] = [@ EXCEPT !.pc = "mutex", !.offset = offset,
                                                 !.exclusive = exclusive,
                                                 !.recordLock = recordLocks[offset]]])
       ELSE LockTable(recordLocks, lockOwners,
                [threads EXCEPT ![t] = [@ EXCEPT !.pc = "create", !.offset = offset,
                                                 !.exclusive = exclusive]])

\* std::make_shared<RecordLock>(): an object no one refers to yet
fresh == CHOOSE id \in 1..(Cardinality(DOMAIN lockOwners) + 1) : id \notin DOMAIN lockOwners

\* lockRecord, the section under the exclusive recordLocksMutex: the entry is
\* looked up again, created if it is still missing, and counted
LockCreate(t) ==
    /\ status = "run"
    /\ threads[t].pc = "create"
    /\ IF threads[t].offset \notin DOMAIN recordLocks
       THEN LockTable((threads[t].offset :> fresh) @@ recordLocks,
                (fresh :> [NewRecordLock EXCEPT !.counter = @ + 1]) @@ lockOwners,
                [threads EXCEPT ![t] = [@ EXCEPT !.pc = "mutex", !.recordLock = fresh]])
       ELSE LockTable(recordLocks,
                [lockOwners EXCEPT ![recordLocks[threads[t].offset]].counter = @ + 1],
                [threads EXCEPT ![t] = [@ EXCEPT !.pc = "mutex",
                                                 !.recordLock = recordLocks[threads[t].offset]]])

\* lockRecord: recordLock->mutex.lock() or lock_shared() returns
LockMutex(t) ==
    /\ status = "run"
    /\ threads[t].pc = "mutex"
    /\ Free(lockOwners[threads[t].recordLock].holders, threads[t].exclusive)
    /\ LockTable(recordLocks,
           [lockOwners EXCEPT ![threads[t].recordLock].holders = @ \cup {Me(t, threads[t].exclusive)}],
           [threads EXCEPT ![t] = [@ EXCEPT !.pc = "held"]])

\* unlockRecord, the section under the shared recordLocksMutex: without an
\* entry the call returns
UnlockFind(t) ==
    /\ status = "run"
    /\ threads[t].pc = "held"
    /\ IF threads[t].offset \notin DOMAIN recordLocks
       THEN LockTable(recordLocks, lockOwners,
                [threads EXCEPT ![t] = [NoLocker EXCEPT !.made = threads[t].made + 1]])
       ELSE LockTable(recordLocks, lockOwners,
                [threads EXCEPT ![t] = [@ EXCEPT !.pc = "unlock",
                                                 !.recordLock = recordLocks[threads[t].offset]]])

\* unlockRecord: recordLock->mutex.unlock() or unlock_shared(); undefined on
\* a mutex the thread does not hold
UnlockMutex(t) ==
    /\ status = "run"
    /\ threads[t].pc = "unlock"
    /\ IF Me(t, threads[t].exclusive) \in lockOwners[threads[t].recordLock].holders
       THEN LockTable(recordLocks,
                [lockOwners EXCEPT ![threads[t].recordLock].holders = @ \ {Me(t, threads[t].exclusive)}],
                [threads EXCEPT ![t] = [@ EXCEPT !.pc = "drop"]])
       ELSE /\ status' \in Outcomes
            /\ UNCHANGED <<file, storageHeader, freeLookupDepth, recordLocks, cursors, last, liveOrder, calls, threads, headerMutex, freeListMutex, lockOwners, stale, cache, workers, probe, mode>>

\* a counter that makes every caller the last one
alwaysLast(counter) == TRUE

\* counter.fetch_sub(1) == 1: the caller was the last to use the entry
wasLast(counter) == counter = 1

\* unlockRecord, the section under the exclusive recordLocksMutex: the entry
\* is counted down and erased from the map with its last user
UnlockDrop(t) ==
    /\ status = "run"
    /\ threads[t].pc = "drop"
    /\ LockTable(IF wasLast(lockOwners[threads[t].recordLock].counter)
                 THEN [o \in DOMAIN recordLocks \ {threads[t].offset} |-> recordLocks[o]]
                 ELSE recordLocks,
           [lockOwners EXCEPT ![threads[t].recordLock].counter = @ - 1],
           [threads EXCEPT ![t] = [NoLocker EXCEPT !.made = threads[t].made + 1]])

NextLocks ==
    \/ \E t \in MTThreads, offset \in LockOffsets, exclusive \in BOOLEAN : LockFind(t, offset, exclusive)
    \/ \E t \in MTThreads : LockCreate(t)
    \/ \E t \in MTThreads : LockMutex(t)
    \/ \E t \in MTThreads : UnlockFind(t)
    \/ \E t \in MTThreads : UnlockMutex(t)
    \/ \E t \in MTThreads : UnlockDrop(t)

SpecLocks == InitLocks /\ [][NextLocks]_vars

\* the threads that hold the lock of offset, and those inside lockRecord or
\* unlockRecord for it after the map has been looked up
HoldersAt(offset) == {t \in MTThreads : threads[t].offset = offset /\ threads[t].pc \in {"held", "unlock"}}
UsersOf(offset) == {t \in MTThreads : threads[t].offset = offset /\ threads[t].pc \in {"mutex", "held", "unlock", "drop"}}

\* one exclusive holder at most and none beside a shared holder; one
\* RecordLock per offset; an entry is in the map exactly while it is counted
LockTableIsExact ==
    /\ status = "run"
    /\ \A o \in LockOffsets : \A t, u \in HoldersAt(o) :
          (threads[t].exclusive \/ threads[u].exclusive) => t = u
    /\ \A o \in LockOffsets : \A t \in UsersOf(o) :
          o \in DOMAIN recordLocks /\ threads[t].recordLock = recordLocks[o]
    /\ \A o \in DOMAIN recordLocks : lockOwners[recordLocks[o]].counter > 0
    /\ \A id \in DOMAIN lockOwners :
          lockOwners[id].counter > 0 => \E o \in DOMAIN recordLocks : recordLocks[o] = id
    /\ \A o \in DOMAIN recordLocks : lockOwners[recordLocks[o]].counter = Cardinality(UsersOf(o))

\* C29 as stated: the lock table is exact, and the map is empty whenever no
\* thread holds or waits for a record lock
C29_EmptyWhenNoHolderOrWaiter ==
    /\ LockTableIsExact
    /\ (\A t \in MTThreads : threads[t].pc \notin {"mutex", "held", "unlock"})
          => recordLocks = EmptyMap

\* C29: the lock table is exact, and the map is empty whenever no thread
\* holds a record lock or is inside lockRecord or unlockRecord
C29_EmptyWhenNoUser ==
    /\ LockTableIsExact
    /\ (\A t \in MTThreads : threads[t].pc \in {"idle", "create"}) => recordLocks = EmptyMap

\* C29 case: a thread has released the mutex and not yet erased the entry,
\* and no other thread uses the table
C29_ReleasedNotErased ==
    \E t \in MTThreads :
        /\ threads[t].pc = "drop"
        /\ threads[t].offset \in DOMAIN recordLocks
        /\ \A u \in MTThreads \ {t} : threads[u].pc = "idle"


\* ---- The least recently used frame ----

\* C31: with the pool full, the frame getFreeCachePage evicts is the resident
\* frame whose last lookup hit or load is the oldest, after any sequence of
\* read, write and flush calls.
C31_EvictsLeastRecentlyUsed ==
    ~cache.closed => cache.evictedOldest

\* After a flush, the frame evicted for a new page was not the least
\* recently used one: a frame used less recently is still resident.
C31_EvictedAfterFlushSort ==
    /\ status = "run"
    /\ ~cache.closed
    /\ ~cache.evictedOldest
    /\ \E w \in DOMAIN workers : workers[w].pc = "load" /\ workers[w].pageInfo \notin Range(cache.cacheList)
    /\ cache.used # <<>>


\* ---- Partial page writes ----

\* The byte at file position p (from 1) as the cached file holds it: in the
\* frame of its page when the page is resident, in the file otherwise.
present(cs, p) ==
    IF (p - 1) \div PAGE_SIZE \in DOMAIN cs.cacheMap
    THEN cs.pool[cs.cacheMap[(p - 1) \div PAGE_SIZE]].data[((p - 1) % PAGE_SIZE) + 1]
    ELSE IF p <= Len(cs.disk) THEN cs.disk[p] ELSE NOT_FOUND

\* the positions call i of the worker wrote
Covered(wk, i) == (wk.writes[i][1] + 1)..(wk.writes[i][1] + Len(wk.writes[i][2]))

\* the positions of the pages call i of the worker touched
Touched(wk, i) == (firstPageNo([position |-> wk.writes[i][1]]) * PAGE_SIZE + 1)..((lastPageNo([position |-> wk.writes[i][1], length |-> Len(wk.writes[i][2])]) + 1) * PAGE_SIZE)

PartialWrites == 1   \* write calls the worker makes first
PartialCalls == 3    \* calls the worker makes in all

\* readPage(pageNo, buffer)
ReadPage(w, pageNo) == CacheRead(w, pageNo * PAGE_SIZE, PAGE_SIZE)

\* some writes, then whole pages are read, with flushes between the calls
NextPartial ==
    \/ \E position \in 0..(FileBytes - 1), length \in 1..MaxWrite : workers[1].made < PartialWrites /\ CacheWrite(1, position, length)
    \/ \E pageNo \in 0..((FileBytes - 1) \div PAGE_SIZE) : workers[1].made < PartialCalls /\ ReadPage(1, pageNo)
    \/ SearchPageInCache(1)
    \/ AllocatePageCheck(1)
    \/ AllocatePageLoad(1)
    \/ AllocatePageAdd(1)
    \/ EvictPage(1)
    \/ LoadPageToCache(1)
    \/ ReadCopy(1)
    \/ WriteCalc(1)
    \/ WriteStore(1)
    \/ CacheFlush

SpecPartial == InitCache /\ [][NextPartial]_vars

\* C32: between calls, through evictions and flushes, every byte of a page a
\* write touched that lies outside the written range has the value it had
\* before that write: the opened file's byte, or the byte of the last earlier
\* write that covered it, which is the byte of the plain file.
C32_PartialWriteKeepsPage ==
    (status = "run" /\ ~cache.closed) =>
        \A w \in DOMAIN workers :
            workers[w].pc = "idle" =>
                \A i \in DOMAIN workers[w].writes :
                    \A p \in (Touched(workers[w], i) \ Covered(workers[w], i)) \cap (1..Len(cache.plain)) :
                        present(cache, p) = cache.plain[p]

\* A write covered one byte of a page of the opened file that was not
\* resident; the page has been evicted since, and the file has the page with
\* the written byte and the other byte as it was.
C32_PartialPageEvicted ==
    /\ status = "run"
    /\ ~cache.closed
    /\ \E w \in DOMAIN workers :
        /\ workers[w].pc = "idle"
        /\ workers[w].made > 1
        /\ \E p \in 1..Len(cache.origin) :
            /\ workers[w].writes = <<<<p - 1, Mark(w, 1, 1)>>>>
            /\ (p - 1) \div PAGE_SIZE \notin DOMAIN cache.cacheMap
            /\ cache.disk[p] = Mark(w, 1, 1)[1]
            /\ \E q \in (Touched(workers[w], 1) \ {p}) \cap (1..Len(cache.origin)) : cache.disk[q] = cache.origin[q]


\* ---- A record appended at the end of data ----

FilledCalls == 3     \* calls the thread makes on the store
FilledStores == {<<0, 0>>, <<1, 1>>, <<2, 1>>, <<2, 2>>}

\* a store open for writing on which records were created and the first of
\* them removed
InitFilled ==
    /\ \E p \in FilledStores :
          /\ file = Prepared(p).file
          /\ storageHeader = Prepared(p).sh
          /\ freeLookupDepth = Prepared(p).depth
          /\ last = [ReadCall EXCEPT !.before = Prepared(p)]
    /\ mode = ReadWrite
    /\ recordLocks = EmptyMap
    /\ cursors = [c \in Cursors |-> NoCursor]
    /\ status = "run"
    /\ liveOrder = <<>>
    /\ calls = 0
    /\ threads = EmptyMap
    /\ headerMutex = {}
    /\ freeListMutex = {}
    /\ lockOwners = EmptyMap
    /\ stale = {}
    /\ probe = NoProbe
    /\ cache = NoCache
    /\ workers = EmptyMap

NextFilled ==
    \/ calls < FilledCalls /\ \E c \in Cursors, data \in Payloads : CreateRecord(c, data)
    \/ calls < FilledCalls /\ \E c \in Cursors, offset \in DOMAIN file : GetRecord(c, offset)
    \/ calls < FilledCalls /\ \E c \in Cursors : GetFirstRecord(c)
    \/ calls < FilledCalls /\ \E c \in Cursors : GetLastRecord(c)
    \/ calls < FilledCalls /\ \E c \in Cursors : RemoveRecord(c)
    \/ calls < FilledCalls /\ \E c \in Cursors, data \in Payloads : SetRecordData(c, data)

SpecFilled == InitFilled /\ [][NextFilled]_vars

\* the last call was a createRecord that returned a record in a new slot
Appended ==
    /\ status = "run"
    /\ last.op = "createRecord"
    /\ last.ok
    /\ last.pos \notin DOMAIN last.before.file

\* C33: a createRecord(data, len) that recycles no free record places the
\* record at the endOfData it found (64 on an empty store) with recordCapacity
\* len, links it after the lastRecord it found, makes it lastRecord and
\* moves endOfData up by RECORD_HEADER_SIZE + len.
C33_AppendAtEndOfData ==
    Appended =>
        /\ last.pos = last.before.sh.endOfData
        /\ Cardinality(DOMAIN last.before.file) = 0 => last.pos = STORAGE_HEADER_SIZE
        /\ file[last.pos].hdr.recordCapacity = Len(last.data)
        /\ file[last.pos].hdr.previous = last.before.sh.lastRecord
        /\ file[last.pos].hdr.next = NOT_FOUND
        /\ last.before.sh.lastRecord \in DOMAIN file => file[last.before.sh.lastRecord].hdr.next = last.pos
        /\ storageHeader.lastRecord = last.pos
        /\ storageHeader.endOfData = last.before.sh.endOfData + RECORD_HEADER_SIZE + Len(last.data)

\* A record was appended behind a live last record while a free record, too
\* small for it, stayed on the free list.
C33_AppendedBehindLast ==
    /\ Appended
    /\ last.before.sh.lastRecord \in DOMAIN last.before.file
    /\ ~isDeleted(last.before, last.before.sh.lastRecord)
    /\ last.before.sh.totalFreeRecords > 0
    /\ file[last.before.sh.lastRecord].hdr.next = last.pos
    /\ last.pos > STORAGE_HEADER_SIZE


\* ---- The depth of the free list lookup ----

DeepCalls == 3       \* calls the thread makes on the store

\* the free records of one byte that come before the one of two bytes
DeepStores == {FREE_RECORD_LOOKUP_DEPTH - 1, FREE_RECORD_LOOKUP_DEPTH}

\* The store after n records of one byte, one of two bytes and one more of
\* one byte were created and all but the last removed, the first one first:
\* record i of the n + 2 is at DeepOffset(n, i), the free list is the removed
\* records in the order of their removal.
DeepOffset(n, i) == STORAGE_HEADER_SIZE + (i - 1) * (RECORD_HEADER_SIZE + 1) + (IF i > n + 1 THEN 1 ELSE 0)

DeepFree(n, i) == withHeadChecksum([UninitHeader EXCEPT !.next = IF i = n + 1 THEN NOT_FOUND ELSE DeepOffset(n, i + 1), !.previous = IF i = 1 THEN NOT_FOUND ELSE DeepOffset(n, i - 1), !.bitFlags = RECORD_DELETED_FLAG, !.recordCapacity = IF i = n + 1 THEN 2 ELSE 1])

DeepLive == withHeadChecksum([UninitHeader EXCEPT !.recordCapacity = 1, !.dataLength = 1, !.dataChecksum = checksum(Payload(1), 1)])

DeepStore(n) ==
    [ReadCall.before EXCEPT
        !.file = [o \in {DeepOffset(n, i) : i \in 1..(n + 2)} |->
                     LET i == CHOOSE i \in 1..(n + 2) : DeepOffset(n, i) = o
                     IN  [hdr |-> IF i = n + 2 THEN DeepLive ELSE DeepFree(n, i),
                          data |-> IF i = n + 1 THEN Payload(2) ELSE Payload(1)]],
        !.sh = [endOfData |-> DeepOffset(n, n + 2) + RECORD_HEADER_SIZE + 1,
                totalRecords |-> 1, firstRecord |-> DeepOffset(n, n + 2), lastRecord |-> DeepOffset(n, n + 2),
                totalFreeRecords |-> n + 1, firstFreeRecord |-> DeepOffset(n, 1), lastFreeRecord |-> DeepOffset(n, n + 1)]]

InitDeep ==
    /\ \E n \in DeepStores :
          /\ file = DeepStore(n).file
          /\ storageHeader = DeepStore(n).sh
          /\ freeLookupDepth = DeepStore(n).depth
          /\ last = [ReadCall EXCEPT !.before = DeepStore(n)]
    /\ mode = ReadWrite
    /\ recordLocks = EmptyMap
    /\ cursors = [c \in Cursors |-> NoCursor]
    /\ status = "run"
    /\ liveOrder = <<>>
    /\ calls = 0
    /\ threads = EmptyMap
    /\ headerMutex = {}
    /\ freeListMutex = {}
    /\ lockOwners = EmptyMap
    /\ stale = {}
    /\ probe = NoProbe
    /\ cache = NoCache
    /\ workers = EmptyMap

\* createRecord on the store with the long free list
CreateRecordDeep(c, data) ==
    /\ status = "run"
    /\ calls < DeepCalls
    /\ Returned(c, createRecord(Engine, data, Len(data)))
    /\ last' = Call("createRecord", c, Running(createRecord(Engine, data, Len(data)).st) /\ ~createRecord(Engine, data, Len(data)).cursor.null, createRecord(Engine, data, Len(data)).cursor.pos, data)
    /\ UNCHANGED liveOrder

NextDeep ==
    \/ \E c \in Cursors, data \in Payloads : CreateRecordDeep(c, data)
    \/ calls < DeepCalls /\ \E c \in Cursors, offset \in DOMAIN file : GetRecord(c, offset)
    \/ calls < DeepCalls /\ \E c \in Cursors : GetLastRecord(c)
    \/ calls < DeepCalls /\ \E c \in Cursors : RemoveRecord(c)

SpecDeep == InitDeep /\ [][NextDeep]_vars

\* C34: createRecord looks at the first freeLookupDepth records of the free
\* list and no further, freeLookupDepth being max(64, totalFreeRecords / 10)
\* as the last header write left it: when none of those has the capacity, the
\* record is appended at endOfData and the free list keeps all its records,
\* a fitting one further down included.
C34_LookupStopsAtDepth ==
    (status = "run" /\ last.op = "createRecord") =>
        /\ freeLookupDepth = Max(FREE_RECORD_LOOKUP_DEPTH, storageHeader.totalFreeRecords \div FREE_RECORD_LOOKUP_RATIO)
        /\ firstFit(last.before, Len(last.data)) = 0 =>
               /\ last.ok
               /\ last.pos = last.before.sh.endOfData
               /\ storageHeader.totalFreeRecords = last.before.sh.totalFreeRecords
               /\ freeChain(Engine) = freeChain(last.before)

\* A record was appended while the free record after the first
\* freeLookupDepth ones had the capacity for it.
C34_FitBeyondDepth ==
    /\ status = "run"
    /\ last.op = "createRecord"
    /\ last.ok
    /\ last.pos = last.before.sh.endOfData
    /\ Len(freeChain(last.before)) > last.before.depth
    /\ last.before.file[freeChain(last.before)[last.before.depth + 1]].hdr.recordCapacity >= Len(last.data)


\* ---- The first record after the live list was emptied ----

\* the last call was a successful createRecord on a store with no live
\* record and a free list that is not empty
CreatedAfterRemoveAll ==
    /\ status = "run"
    /\ last.op = "createRecord"
    /\ last.ok
    /\ last.before.sh.totalRecords = 0
    /\ last.before.sh.firstRecord = NOT_FOUND
    /\ last.before.sh.lastRecord = NOT_FOUND
    /\ last.before.sh.totalFreeRecords > 0

\* C35: the createRecord that follows the removal of every live record, free
\* records being there, leaves firstRecord = lastRecord = the new record's
\* offset, the new record with previous = next = NOT_FOUND, getTotalRecords()
\* = 1 and getFirstRecord() on that record.
C35_FirstRecordAfterRemoveAll ==
    CreatedAfterRemoveAll =>
        /\ storageHeader.firstRecord = last.pos
        /\ storageHeader.lastRecord = last.pos
        /\ file[last.pos].hdr.previous = NOT_FOUND
        /\ file[last.pos].hdr.next = NOT_FOUND
        /\ getTotalRecords(Engine) = 1
        /\ ~getFirstRecord(Engine).cursor.null
        /\ getFirstRecord(Engine).cursor.pos = last.pos

\* The record was created, it is the last record and the only one counted,
\* firstRecord is still NOT_FOUND and getFirstRecord() returns null.
C35_NoFirstRecord ==
    /\ CreatedAfterRemoveAll
    /\ storageHeader.lastRecord = last.pos
    /\ getTotalRecords(Engine) = 1
    /\ storageHeader.firstRecord = NOT_FOUND
    /\ getFirstRecord(Engine).cursor.null


\* ---- getRecord at any offset ----

ForgedCalls == 2     \* calls the thread makes on the store

\* the byte of the file at position q (from 0) of the record area: a byte of
\* a record's header or of the payload bytes written behind it
Holding(st, q) == {o \in DOMAIN st.file : o <= q /\ q < o + RECORD_HEADER_SIZE + Len(st.file[o].data)}

byteAt(st, q) ==
    LET o == CHOOSE o \in Holding(st, q) : TRUE
    IN  IF q < o + RECORD_HEADER_SIZE
        THEN StoredHeader(st.file[o].hdr)[q - o + 1]
        ELSE st.file[o].data[q - o - RECORD_HEADER_SIZE + 1]

\* cachedFile.read(offset, &header, RECORD_HEADER_SIZE): the bytes read, none
\* when the file ends before the last of them
cachedReadHeader(st, offset) ==
    IF isOpen(st) /\ \A q \in offset..(offset + RECORD_HEADER_SIZE - 1) : Holding(st, q) # {}
    THEN [i \in 1..RECORD_HEADER_SIZE |-> byteAt(st, offset + i - 1)]
    ELSE <<>>

\* the fields of a RecordHeader filled with those bytes
Offset64Of(bytes, p) ==
    IF \A i \in 0..7 : bytes[p + i] = 255 THEN NOT_FOUND
    ELSE bytes[p] + 256 * bytes[p + 1] + 65536 * bytes[p + 2] + 16777216 * bytes[p + 3]

HeaderOf(bytes) ==
    [next |-> Offset64Of(bytes, 1), previous |-> Offset64Of(bytes, 9),
     bitFlags |-> {8 * k + j : k \in 0..7, j \in 0..7} \cap {b \in 0..63 : (bytes[17 + (b \div 8)] \div (2 ^ (b % 8))) % 2 = 1},
     recordCapacity |-> bytes[25] + 256 * bytes[26] + 65536 * bytes[27] + 16777216 * bytes[28],
     dataLength |-> bytes[29] + 256 * bytes[30] + 65536 * bytes[31] + 16777216 * bytes[32],
     dataChecksum |-> Word(bytes, 33), headChecksum |-> Word(bytes, 37)]

\* getRecord(recordPosition) on the bytes of the file: readRecordHeader
\* needs RECORD_HEADER_SIZE bytes whose checksum is right, getRecord a clear
\* deleted bit
getRecordAt(st, recordPosition) ==
    IF recordIsReturned(cachedReadHeader(st, recordPosition))
    THEN [st |-> st, cursor |-> Cursor(HeaderOf(cachedReadHeader(st, recordPosition)), recordPosition)]
    ELSE [st |-> st, cursor |-> NoCursor]

GetRecordAt(c, offset) ==
    /\ Callable
    /\ Returned(c, getRecordAt(Engine, offset))
    /\ last' = [ReadCall EXCEPT !.op = "getRecord", !.c = c, !.ok = ~getRecordAt(Engine, offset).cursor.null, !.pos = offset, !.before = Engine]
    /\ UNCHANGED liveOrder

\* a payload a caller may pass: the RECORD_HEADER_SIZE bytes of a record header
ForgedPayload == StoredHeader(withHeadChecksum(UninitHeader))

NextForged ==
    \/ calls < ForgedCalls /\ \E c \in Cursors, data \in Payloads \cup {ForgedPayload} : CreateRecord(c, data)
    \/ calls < ForgedCalls /\ \E c \in Cursors, offset \in STORAGE_HEADER_SIZE..(storageHeader.endOfData + 1) : GetRecordAt(c, offset)
    \/ calls < ForgedCalls /\ \E c \in Cursors : cursors[c].pos \in DOMAIN file /\ RemoveRecord(c)

SpecForged == InitFilled /\ [][NextForged]_vars

\* C36: getRecord(offset) returns a cursor only for the offset of a slot
\* that holds a live record; for a free slot, an offset inside a record's
\* payload, whatever the caller stored there, and an offset at or past
\* endOfData it returns null.
C36_CursorOnLiveRecordsOnly ==
    (status = "run" /\ last.op = "getRecord") =>
        (last.ok <=> (last.pos \in DOMAIN file /\ ~isDeleted(Engine, last.pos)))

\* getRecord returned a cursor at the first payload byte of a record: the
\* payload is the bytes of a record header.
C36_CursorInsidePayload ==
    /\ status = "run"
    /\ last.op = "getRecord"
    /\ last.ok
    /\ last.pos \notin DOMAIN file
    /\ last.pos - RECORD_HEADER_SIZE \in DOMAIN file
    /\ ~isDeleted(Engine, last.pos - RECORD_HEADER_SIZE)
    /\ file[last.pos - RECORD_HEADER_SIZE].data = ForgedPayload
    /\ cursors[last.c].pos = last.pos


\* ---- Zero-length requests ----

ZeroCalls == 3

\* the calls of a caller that also passes a length of zero
NextZero ==
    \/ calls < ZeroCalls /\ \E c \in Cursors, data \in Payloads \cup {<<>>} : CreateRecord(c, data)
    \/ calls < ZeroCalls /\ \E c \in Cursors : GetFirstRecord(c)
    \/ calls < ZeroCalls /\ \E c \in Cursors : GetLastRecord(c)
    \/ calls < ZeroCalls /\ \E c \in Cursors : RemoveRecord(c)
    \/ calls < ZeroCalls /\ \E c \in Cursors, data \in Payloads \cup {<<>>} : SetRecordData(c, data)

SpecZero == InitFilled /\ [][NextZero]_vars

\* the last call was a createRecord or a setRecordData of length zero
ZeroLengthCall ==
    /\ status = "run"
    /\ last.op \in {"createRecord", "setRecordData"}
    /\ last.data = <<>>

\* C37: a zero-length request never allocates: setRecordData(data, 0) returns
\* false and createRecord(data, 0) returns null, on an empty store and on a
\* store with records, with or without free records, and the storage header,
\* the live list and the free list are as they were before the call.
C37_ZeroLengthNeverAllocates ==
    ZeroLengthCall =>
        /\ ~last.ok
        /\ storageHeader = last.before.sh
        /\ liveChain(Engine) = liveChain(last.before)
        /\ freeChain(Engine) = freeChain(last.before)

\* createRecord(data, 0) on an empty store returned a cursor on a first
\* record of capacity zero at the start of the data area.
C37_ZeroCapacityFirstRecord ==
    /\ ZeroLengthCall
    /\ last.op = "createRecord"
    /\ last.before.sh.lastRecord = NOT_FOUND
    /\ last.before.sh.firstFreeRecord = NOT_FOUND
    /\ last.ok
    /\ last.pos = STORAGE_HEADER_SIZE
    /\ file[last.pos].hdr.recordCapacity = 0
    /\ getTotalRecords(Engine) = 1


\* ---- Linking behind the tail ----

\* the offsets of the neighbours whose header allocateRecord locks, reads and
\* rewrites to link the record it returns behind the tail: getFromFreeList and
\* appendNewRecord take storageHeader.lastRecord as it is
linkedBehind(st, capacity, data, length, updateHeader) ==
    LET noFreeRecords == st.sh.firstFreeRecord = NOT_FOUND /\ st.sh.lastRecord = NOT_FOUND
        recycled == getFromFreeList(st, capacity, UninitHeader, data, length, updateHeader)
    IN  IF noFreeRecords \/ ~updateHeader THEN {}
        ELSE IF recycled.offset # NOT_FOUND THEN {st.sh.lastRecord}
        ELSE IF capacity = 0 THEN {}
        ELSE {recycled.st.sh.lastRecord}

\* C38: no operation reads or writes a record header at offset NOT_FOUND: a
\* createRecord that links the new or recycled record behind the previous tail
\* reads and rewrites the tail's header only if the tail's offset is not
\* NOT_FOUND.
C38_NoHeaderAccessAtNotFound ==
    (status = "run" /\ last.op = "createRecord") =>
        NOT_FOUND \notin linkedBehind(last.before, Len(last.data), last.data, Len(last.data), TRUE)

\* createRecord on a store with free records and no live record: the record
\* was made with previous = NOT_FOUND after the header at NOT_FOUND was
\* locked, read and rewritten as the tail's.
C38_LinkedBehindNoRecord ==
    /\ status = "run"
    /\ last.op = "createRecord"
    /\ last.ok
    /\ last.before.sh.lastRecord = NOT_FOUND
    /\ last.before.sh.firstFreeRecord # NOT_FOUND
    /\ file[last.pos].hdr.previous = NOT_FOUND
    /\ linkedBehind(last.before, Len(last.data), last.data, Len(last.data), TRUE) = {NOT_FOUND}


\* ---- Record locks at the return of a call ----

\* thread t is between two calls
BackFromCall(t) == threads[t].pc = "idle"

\* the offsets of the records whose lock thread t holds
LocksHeldBy(t) == {o \in DOMAIN lockOwners : Owns(lockOwners[o], t)}

\* C39: every per-record lock an operation acquires is released before the
\* operation returns, on success and on every failure path: a thread that is
\* back from its call, a setRecordData that returned false included, holds no
\* record lock.
C39_LocksReleasedOnReturn ==
    status = "run" => \A t \in DOMAIN threads : BackFromCall(t) => LocksHeldBy(t) = {}

\* A thread is back from a setRecordData that found the old record deleted
\* by the other thread's relocation when it came to free it: the record it
\* had allocated is still locked exclusively by it, and the cursor is where
\* it was.
C39_NewRecordLeftLocked ==
    /\ status = "run"
    /\ \E t \in DOMAIN threads :
          /\ BackFromCall(t)
          /\ threads[t].made > 0
          /\ ~threads[t].cursor.null
          /\ threads[t].cursor.pos \in DOMAIN file
          /\ RECORD_DELETED_FLAG \subseteq file[threads[t].cursor.pos].hdr.bitFlags
          /\ \E o \in LocksHeldBy(t) :
                /\ o # threads[t].cursor.pos
                /\ Me(t, TRUE) \in lockOwners[o]
                /\ recordLocks[o] = -1


\* ---- The LRU list and the page map ----

\* a thread is between its miss in searchPageInCache and the end of
\* loadPageToCache
LoadInProgress ==
    \E w \in DOMAIN workers :
        workers[w].pc \in {"allocate", "allocate_load", "allocate_add", "evict", "load"}

\* the frames the page map refers to
MappedFrames == {cache.cacheMap[p] : p \in DOMAIN cache.cacheMap}

\* C40: whenever no page load is in progress, the frames on the LRU list are
\* the frames in the page map, each mapped under its own filePageNo, and no
\* two resident frames hold the same file page, also after two threads missed
\* the same page at the same time; and while a read or a write copies bytes
\* from or to a frame, the frame holds the file page the call looked up.
C40_ListAndMapAgree ==
    (status = "run" /\ ~cache.closed) =>
        /\ ~LoadInProgress =>
              /\ Range(cache.cacheList) = MappedFrames
              /\ \A p \in DOMAIN cache.cacheMap : cache.pool[cache.cacheMap[p]].filePageNo = p
              /\ \A i, j \in DOMAIN cache.cacheList :
                    i # j => cache.pool[cache.cacheList[i]].filePageNo
                                 # cache.pool[cache.cacheList[j]].filePageNo
        /\ \A w \in DOMAIN workers :
              workers[w].pc \in {"copy", "calc", "store"} =>
                  cache.pool[workers[w].pageInfo].filePageNo = workers[w].filePage

\* Both threads missed the same page and each loaded it into a frame of its
\* own: with no load in progress two frames on the list hold that page, and
\* the map refers to one of them only.
C40_PageInTwoFrames ==
    /\ status = "run"
    /\ ~cache.closed
    /\ ~LoadInProgress
    /\ \E i, j \in DOMAIN cache.cacheList :
          /\ i # j
          /\ cache.cacheList[i] # cache.cacheList[j]
          /\ cache.pool[cache.cacheList[i]].filePageNo = cache.pool[cache.cacheList[j]].filePageNo
          /\ cache.pool[cache.cacheList[i]].filePageNo \in DOMAIN cache.cacheMap
          /\ cache.cacheList[j] \notin MappedFrames

====
